---- MODULE Spec2Model ----
(***************************************************************************)
(* CricBase: ingestion of Cricsheet match files into the canonical store   *)
(* (scripts/cricsheet_loader.py, scripts/utils.py) and reconciliation of   *)
(* the scraped ICC schedule against it (MissingMatchesLoader).             *)
(*                                                                         *)
(* Ten specifications share this module:                                   *)
(*   Spec       the per-file ingestion loop of load_all_cricsheet_data,    *)
(*              run several times over one unchanged source directory;     *)
(*   SpecRecon  one pass of update_missing_matches over a scraped frame    *)
(*              and a canonical match_summary projection;                  *)
(*   SpecRun    the run-level life of the missing_matches backlog          *)
(*              (running.main: prepare/reset, ingest, scrape, reconcile);  *)
(*   SpecKey    the identity key of two match-like records;                *)
(*   SpecDeliv  extraction and load of the deliveries of one match against *)
(*              the CHECK constraints and triggers of table deliveries;    *)
(*   SpecStats  the views batting_stats and bowling_stats over a stored    *)
(*              deliveries table;                                          *)
(*   SpecFlags  the powerplay and super_over flags generate_df gives a     *)
(*              delivery;                                                  *)
(*   SpecMatch  extraction and load of the row of one match and the        *)
(*              innings totals of view match_summary;                      *)
(*   SpecResolve the team and venue maps shared by the files of one run;   *)
(*   SpecWrite  the canonical rows over one incremental run, with the      *)
(*              start-time update of WeatherLoader.                        *)
(***************************************************************************)
EXTENDS Integers, Sequences, FiniteSets, TLC

VARIABLES
    \* ---- ingestion (Spec) ----
    json_files,      \* the discovered (filename, path) entries, with the content class of each file
    matches,         \* match_id values of the rows of table matches
    match_metadata,  \* match_id values of the rows of table match_metadata
    match_players,   \* match_id values having rows in table match_players
    deliveries,      \* match_id values having rows in table deliveries
    all_files,       \* the gate's result for the current run
    idx,             \* position of the loop in all_files
    pc,              \* position of the current run
    run,             \* number of runs started
    prev_run,        \* end status and store at the end of the previous run
    \* ---- reconciliation (SpecRecon, SpecRun) ----
    db_df,           \* rows of view match_summary (canonical projection B)
    icc_df,          \* the frame returned by ICCScraper.scrape_period
    icc_dedup,       \* the frame after _handle_icc_duplicates
    exact_matches,   \* rows of the left merge flagged 'both'
    missing,         \* rows of the left merge flagged 'left_only'
    diag,            \* mismatch diagnostics logged by the current pass
    missing_matches, \* rows of table missing_matches (the backlog)
    rpc,             \* position of the reconciliation run
    rrun,            \* number of reconciliation runs started
    full_reset,      \* running.main's mode for the current run
    mm_before,       \* table missing_matches when the current run started
    db_loaded,       \* match_summary rows when ingestion of the current run ended
    \* ---- identity key (SpecKey) ----
    rec_a,           \* a match-like record (start_date, team1, team2)
    rec_b,           \* another match-like record
    key_a,           \* start_date and match_teams_key computed for rec_a
    key_b,           \* start_date and match_teams_key computed for rec_b
    kpc,             \* position of the key computation
    \* ---- deliveries of one match (SpecDeliv) ----
    deliveries_cols, \* column names of table deliveries in the database file
    raw_deliveries,  \* the deliveries of the file's innings, as read from JSON
    df_rows,         \* the frame built by DeliveriesExtractor.generate_df
    delivery_rows,   \* rows of table deliveries
    dpc,             \* position of the load
    \* ---- career statistics (SpecStats) ----
    stat_deliveries, \* rows of table deliveries the views read
    batting_stats,   \* result of SELECT * FROM batting_stats, by playerId
    bowling_stats,   \* result of SELECT * FROM bowling_stats, by playerId
    spc,             \* position of the queries
    \* ---- powerplay and super-over flags (SpecFlags) ----
    fl_in,           \* position of a raw delivery: innings, over and ball index, and powerplays.0.to
    fl_out,          \* the flags generate_df gives it, or the exception raised
    fpc,             \* position of the extraction
    \* ---- the row of one match and its summary (SpecMatch) ----
    mt_in,           \* the match file: info.outcome and the innings with their penalty runs and deliveries
    mt_row,          \* the row of table matches stored for the file, if any
    mt_deliveries,   \* the rows of table deliveries stored for the file
    mt_summary,      \* the row of view match_summary for the match, if any
    mpc,             \* position of the load
    \* ---- shared reference maps of one run (SpecResolve) ----
    rs_files,        \* the gate's list: sex, team names, venue key and content class of each file
    rs_maps,         \* maps: teams_men, teams_women and venues, each a function from name or key to identifier
    rs_calls,        \* the calls made to resolve_missing_team and resolve_missing_venue, in order
    rs_idx,          \* position of the loop in rs_files
    rs_col,          \* the team column load_match is at (1 or 2)
    xpc,             \* position inside the current file
    \* ---- the canonical rows over one incremental run (SpecWrite) ----
    w_matches,       \* table matches: match_id -> the row's summary fields, scheduled_start_utc and updated_at
    w_children,      \* tables match_metadata, match_players and deliveries: for each, match_id -> its rows
    w_missing,       \* rows of table missing_matches
    w_before,        \* tables matches, match_metadata, match_players and deliveries when the run started
    w_has_col,       \* whether table matches of the database file has a scheduled_start_utc column
    w_icc,           \* the frame returned by scrape_period
    w_loaded,        \* number of files the loop of the run has processed
    wpc              \* position of the run

ivars == <<json_files, matches, match_metadata, match_players, deliveries,
           all_files, idx, pc, run, prev_run>>
rvars == <<db_df, icc_df, icc_dedup, exact_matches, missing, diag,
           missing_matches, rpc, rrun, full_reset, mm_before, db_loaded>>
kvars == <<rec_a, rec_b, key_a, key_b, kpc>>
dvars == <<deliveries_cols, raw_deliveries, df_rows, delivery_rows, dpc>>
svars == <<stat_deliveries, batting_stats, bowling_stats, spc>>
fvars == <<fl_in, fl_out, fpc>>
mvars == <<mt_in, mt_row, mt_deliveries, mt_summary, mpc>>
xvars == <<rs_files, rs_maps, rs_calls, rs_idx, rs_col, xpc>>
wvars == <<w_matches, w_children, w_missing, w_before, w_has_col, w_icc, w_loaded, wpc>>
vars == <<ivars, rvars, kvars, dvars, svars, fvars, mvars, xvars, wvars>>

(* What each specification leaves alone. *)
nonIngest == <<rvars, kvars, dvars, svars, fvars, mvars, xvars, wvars>>
nonRecon == <<ivars, kvars, dvars, svars, fvars, mvars, xvars, wvars>>
nonKey == <<ivars, rvars, dvars, svars, fvars, mvars, xvars, wvars>>
nonDeliv == <<ivars, rvars, kvars, svars, fvars, mvars, xvars, wvars>>
nonStats == <<ivars, rvars, kvars, dvars, fvars, mvars, xvars, wvars>>
nonFlags == <<ivars, rvars, kvars, dvars, svars, mvars, xvars, wvars>>
nonMatch == <<ivars, rvars, kvars, dvars, svars, fvars, xvars, wvars>>
nonResolve == <<ivars, rvars, kvars, dvars, svars, fvars, mvars, wvars>>
nonWrite == <<ivars, rvars, kvars, dvars, svars, fvars, mvars, xvars>>

-----------------------------------------------------------------------------
(* Bounds *)
MaxFiles == 2
MaxRuns == 2

-----------------------------------------------------------------------------
(* File names are sequences of characters, so that the two identifier      *)
(* derivations of the code can be computed as the library computes them.   *)
JsonSuffix == <<".", "j", "s", "o", "n">>

FileNames == { <<"1">> \o JsonSuffix, <<"2">> \o JsonSuffix, JsonSuffix }

(* Content classes of a source file: what its load sequence runs into.     *)
FileKinds == { "ok",           \* every step succeeds
               "abandoned",    \* no innings: deliveries frame is empty
               "no_players",   \* no registered players: players frame is empty
               "bad_json",     \* json.load raises JSONDecodeError
               "match_err",    \* load_match raises BuildError (venue unresolved, constraint)
               "meta_err",     \* match_metadata insert violates a constraint
               "players_err",  \* match_players insert violates a constraint or trigger
               "pp_missing",   \* an innings has no powerplays entry
               "pp_format",    \* powerplays.0.to has no '.'
               "deliv_err" }   \* a delivery violates a CHECK of table deliveries

SourceFiles == [fn : FileNames, kind : FileKinds]

RECURSIVE SeqsUpTo(_, _)
SeqsUpTo(S, n) ==
    IF n = 0 THEN { <<>> }
    ELSE LET shorter == SeqsUpTo(S, n - 1)
         IN shorter \cup { Append(s, x) : s \in { t \in shorter : Len(t) = n - 1 }, x \in S }

EndsWith(s, suffix) ==
    /\ Len(s) >= Len(suffix)
    /\ SubSeq(s, Len(s) - Len(suffix) + 1, Len(s)) = suffix

(* str.removesuffix('.json') *)
RemoveSuffix(fn) ==
    IF EndsWith(fn, JsonSuffix) THEN SubSeq(fn, 1, Len(fn) - Len(JsonSuffix)) ELSE fn

(* os.path.splitext(filename)[0]: the part before the last dot, unless     *)
(* every character before that dot is itself a dot (leading dots belong to *)
(* the root).                                                              *)
SplitExtRoot(fn) ==
    LET dots == { i \in 1..Len(fn) : fn[i] = "." }
    IN IF dots = {} THEN fn
       ELSE LET dotIndex == CHOOSE i \in dots : \A j \in dots : j <= i
            IN IF \E k \in 1..(dotIndex - 1) : fn[k] /= "." THEN SubSeq(fn, 1, dotIndex - 1)
               ELSE fn

(* The gate with the file name compared as it is, extension included. *)
GetFilesToProcessNoStrip(done_ids, files) ==
    LET NotDone(f) == f.fn \notin done_ids
    IN SelectSeq(files, NotDone)

(* utils.get_files_to_process *)
GetFilesToProcess(done_ids, files) ==
    LET NotDone(f) == RemoveSuffix(f.fn) \notin done_ids
    IN SelectSeq(files, NotDone)

(* match_id = os.path.splitext(filename)[0] *)
MatchIdOf(f) == SplitExtRoot(f.fn)

StoreSnapshot(status) ==
    [status |-> status, matches |-> matches, match_metadata |-> match_metadata,
     match_players |-> match_players, deliveries |-> deliveries]

-----------------------------------------------------------------------------
(* The flag variables are idle outside SpecFlags. *)
FlagsIdle ==
    /\ fl_in = <<>> /\ fl_out = <<>> /\ fpc = "idle"

(* The match variables are idle outside SpecMatch. *)
MatchIdle ==
    /\ mt_in = <<>> /\ mt_row = <<>> /\ mt_deliveries = {} /\ mt_summary = <<>>
    /\ mpc = "idle"

(* The reference-map variables are idle outside SpecResolve. *)
ResolveIdle ==
    /\ rs_files = <<>> /\ rs_maps = <<>> /\ rs_calls = <<>>
    /\ rs_idx = 0 /\ rs_col = 0 /\ xpc = "idle"

(* The canonical-row variables are idle outside SpecWrite. *)
WriteIdle ==
    /\ w_matches = <<>> /\ w_children = <<>> /\ w_missing = {} /\ w_before = <<>>
    /\ w_has_col = FALSE /\ w_icc = <<>> /\ w_loaded = 0 /\ wpc = "idle"

(* The statistics variables are idle outside SpecStats. *)
StatsIdle ==
    /\ stat_deliveries = {} /\ batting_stats = <<>> /\ bowling_stats = <<>>
    /\ spc = "idle"

(* The delivery variables are idle outside SpecDeliv. *)
DelivIdle ==
    /\ deliveries_cols = {} /\ raw_deliveries = <<>> /\ df_rows = <<>>
    /\ delivery_rows = {} /\ dpc = "idle"

(* The key variables are idle outside SpecKey. *)
KeyIdle ==
    /\ rec_a = <<>> /\ rec_b = <<>> /\ key_a = <<>> /\ key_b = <<>> /\ kpc = "idle"

(* Reconciliation variables are idle outside SpecRecon and SpecRun. *)
ReconIdle ==
    /\ db_df = <<>> /\ icc_df = <<>> /\ icc_dedup = <<>>
    /\ exact_matches = <<>> /\ missing = <<>> /\ diag = {}
    /\ missing_matches = {} /\ rpc = "idle" /\ rrun = 0
    /\ full_reset = FALSE /\ mm_before = {} /\ db_loaded = <<>>

(* os.listdir names each directory entry once. *)
DistinctNames(files) ==
    \A i, j \in 1..Len(files) : i /= j => files[i].fn /= files[j].fn

Init ==
    /\ json_files \in { fs \in SeqsUpTo(SourceFiles, MaxFiles) : DistinctNames(fs) }
    /\ matches = {} /\ match_metadata = {} /\ match_players = {} /\ deliveries = {}
    /\ all_files = <<>>
    /\ idx = 0
    /\ pc = "idle"
    /\ run = 0
    /\ prev_run = [status |-> "none", matches |-> {}, match_metadata |-> {},
                   match_players |-> {}, deliveries |-> {}]
    /\ ReconIdle
    /\ KeyIdle
    /\ DelivIdle
    /\ StatsIdle /\ WriteIdle /\ ResolveIdle /\ MatchIdle /\ FlagsIdle

CurFile == all_files[idx]

(* `continue` at the end of the try block or in the except clause. *)
Advance ==
    /\ idx' = idx + 1
    /\ pc' = IF idx + 1 > Len(all_files) THEN "loaded" ELSE "open"

StartRun ==
    /\ pc = "idle"
    /\ run < MaxRuns
    /\ run' = run + 1
    /\ pc' = "gate"
    /\ all_files' = <<>>
    /\ idx' = 0
    /\ UNCHANGED <<json_files, matches, match_metadata, match_players, deliveries, prev_run>>

RunGate ==
    /\ pc = "gate"
    /\ all_files' = GetFilesToProcess(matches, json_files)
    /\ idx' = 1
    /\ pc' = IF all_files' = <<>> THEN "loaded" ELSE "open"
    /\ UNCHANGED <<json_files, matches, match_metadata, match_players, deliveries, run, prev_run>>

OpenFile ==
    /\ pc = "open"
    /\ IF CurFile.kind = "bad_json"
         THEN Advance
         ELSE pc' = "match" /\ idx' = idx
    /\ UNCHANGED <<json_files, matches, match_metadata, match_players, deliveries,
                   all_files, run, prev_run>>

LoadMatch ==
    /\ pc = "match"
    /\ IF CurFile.kind = "match_err" \/ MatchIdOf(CurFile) \in matches
         THEN Advance /\ matches' = matches
         ELSE /\ matches' = matches \cup { MatchIdOf(CurFile) }
              /\ pc' = "metadata" /\ idx' = idx
    /\ UNCHANGED <<json_files, match_metadata, match_players, deliveries,
                   all_files, run, prev_run>>

LoadMetadata ==
    /\ pc = "metadata"
    /\ IF CurFile.kind = "meta_err" \/ MatchIdOf(CurFile) \in match_metadata
         THEN Advance /\ match_metadata' = match_metadata
         ELSE /\ match_metadata' = match_metadata \cup { MatchIdOf(CurFile) }
              /\ pc' = "players" /\ idx' = idx
    /\ UNCHANGED <<json_files, matches, match_players, deliveries,
                   all_files, run, prev_run>>

LoadPlayers ==
    /\ pc = "players"
    /\ IF CurFile.kind = "no_players"
         THEN match_players' = match_players /\ pc' = "deliveries" /\ idx' = idx
         ELSE IF CurFile.kind = "players_err" \/ MatchIdOf(CurFile) \in match_players
                THEN Advance /\ match_players' = match_players
                ELSE /\ match_players' = match_players \cup { MatchIdOf(CurFile) }
                     /\ pc' = "deliveries" /\ idx' = idx
    /\ UNCHANGED <<json_files, matches, match_metadata, deliveries,
                   all_files, run, prev_run>>

LoadDeliveries ==
    /\ pc = "deliveries"
    /\ CASE CurFile.kind = "pp_missing" ->
              deliveries' = deliveries /\ pc' = "crashed" /\ idx' = idx
         [] CurFile.kind = "pp_format" ->
              deliveries' = deliveries /\ pc' = "failed" /\ idx' = idx
         [] CurFile.kind = "abandoned" ->
              deliveries' = deliveries /\ Advance
         [] CurFile.kind = "deliv_err" \/ MatchIdOf(CurFile) \in deliveries ->
              deliveries' = deliveries /\ Advance
         [] OTHER ->
              deliveries' = deliveries \cup { MatchIdOf(CurFile) } /\ Advance
    /\ UNCHANGED <<json_files, matches, match_metadata, match_players,
                   all_files, run, prev_run>>

FinishRun ==
    /\ pc = "loaded"
    /\ pc' = "idle"
    /\ prev_run' = StoreSnapshot("done")
    /\ UNCHANGED <<json_files, matches, match_metadata, match_players, deliveries,
                   all_files, idx, run>>

AbortRun ==
    /\ pc \in {"crashed", "failed"}
    /\ pc' = "idle"
    /\ prev_run' = StoreSnapshot(pc)
    /\ UNCHANGED <<json_files, matches, match_metadata, match_players, deliveries,
                   all_files, idx, run>>

Next ==
    \/ (StartRun /\ UNCHANGED nonIngest)
    \/ (RunGate /\ UNCHANGED nonIngest)
    \/ (OpenFile /\ UNCHANGED nonIngest)
    \/ (LoadMatch /\ UNCHANGED nonIngest)
    \/ (LoadMetadata /\ UNCHANGED nonIngest)
    \/ (LoadPlayers /\ UNCHANGED nonIngest)
    \/ (LoadDeliveries /\ UNCHANGED nonIngest)
    \/ (FinishRun /\ UNCHANGED nonIngest)
    \/ (AbortRun /\ UNCHANGED nonIngest)

Spec == Init /\ [][Next]_vars

-----------------------------------------------------------------------------
(* Properties of the ingestion loop (Spec) *)

InsideFile == pc \in {"match", "metadata", "players", "deliveries"}

(* The rows a file of this content class stores when its whole sequence    *)
(* succeeds are all present for match m.                                   *)
GroupComplete(m) ==
    \E i \in 1..Len(json_files) :
        /\ MatchIdOf(json_files[i]) = m
        /\ m \in match_metadata
        /\ (json_files[i].kind /= "no_players" => m \in match_players)
        /\ (json_files[i].kind /= "abandoned" => m \in deliveries)

\* C1: match-group atomicity. Whenever the loop is not inside a file's load
\* sequence (between files, after the loop, after the run), every stored
\* match has its metadata, its player associations and its deliveries: a
\* failed step leaves no row of its match group behind.
C1_MatchGroupAtomic ==
    ~InsideFile => \A m \in matches : GroupComplete(m)

\* C2: failure isolation. When the loop of a run has ended, it has ended
\* normally with every file of the gate's list visited, so the run goes on
\* to reconciliation; no file's failure ends the run.
C2_FailureIsolation ==
    pc \in {"loaded", "crashed", "failed"} => (pc = "loaded" /\ idx > Len(all_files))

GateHasRun == pc \notin {"idle", "gate"}

StoreUnchangedSincePrevRun ==
    /\ matches = prev_run.matches
    /\ match_metadata = prev_run.match_metadata
    /\ match_players = prev_run.match_players
    /\ deliveries = prev_run.deliveries

\* C3 (as claimed): ingestion idempotence. After a run has finished, a second
\* run over the unchanged file set gets an empty list from the gate and
\* leaves every match, metadata, match-player and delivery row as it was.
C3_SecondRunEmpty ==
    (run >= 2 /\ prev_run.status = "done" /\ GateHasRun) =>
        (all_files = <<>> /\ StoreUnchangedSincePrevRun)

InAllFiles(f) == \E k \in 1..Len(all_files) : all_files[k] = f

\* C3 (amended): after a run has finished, the gate of a second run over the
\* unchanged file set returns exactly the files whose name without the .json
\* suffix the store does not hold as a match_id; when there is no such file
\* the list is empty, no file is processed and no match, metadata,
\* match-player or delivery row is inserted, changed or deleted.
C3_SecondRunOnlyUnstored ==
    (run >= 2 /\ prev_run.status = "done" /\ GateHasRun) =>
        /\ \A i \in 1..Len(json_files) :
              InAllFiles(json_files[i]) <=>
                  (\A stem \in prev_run.matches : stem \o JsonSuffix /= json_files[i].fn)
        /\ (all_files = <<>> => StoreUnchangedSincePrevRun)

C3_Witness ==
    /\ run = 2 /\ pc = "loaded" /\ prev_run.status = "done"
    /\ Len(json_files) = 2 /\ prev_run.matches /= {}
    /\ all_files = <<>>

(* The name without its '.json' extension, stated by concatenation. *)
StemOf(fn) == CHOOSE s \in { SubSeq(fn, 1, k) : k \in 0..Len(fn) } : s \o JsonSuffix = fn

JustAfterGate == (pc = "open" /\ idx = 1) \/ (pc = "loaded" /\ all_files = <<>>)

\* C4: get_files_to_process returns exactly the entries of its input whose
\* file name without the .json extension is not a stored match_id, in input
\* order and unaltered, and that identifier is the match_id the ingestion
\* loop derives for the file.
C4_GateExact ==
    JustAfterGate =>
        /\ \E pos \in [1..Len(all_files) -> 1..Len(json_files)] :
              /\ \A k \in 1..Len(all_files) : all_files[k] = json_files[pos[k]]
              /\ \A k, l \in 1..Len(all_files) : k < l => pos[k] < pos[l]
              /\ \A i \in 1..Len(json_files) :
                    (\E k \in 1..Len(all_files) : pos[k] = i) <=>
                        StemOf(json_files[i].fn) \notin matches
        /\ \A k \in 1..Len(all_files) : StemOf(all_files[k].fn) = MatchIdOf(all_files[k])

(* The first half of C4 alone: the selection and its order. *)
C4_GateSelection ==
    JustAfterGate =>
        \E pos \in [1..Len(all_files) -> 1..Len(json_files)] :
              /\ \A k \in 1..Len(all_files) : all_files[k] = json_files[pos[k]]
              /\ \A k, l \in 1..Len(all_files) : k < l => pos[k] < pos[l]
              /\ \A i \in 1..Len(json_files) :
                    (\E k \in 1..Len(all_files) : pos[k] = i) <=>
                        StemOf(json_files[i].fn) \notin matches

(* Content classes whose load sequence raises at one of its steps. *)
FailingKinds == { "bad_json", "match_err", "meta_err", "players_err",
                  "pp_missing", "pp_format", "deliv_err" }

(* The run has ended and entry k of the gate's list was processed in it. *)
ProcessedInEndedRun(k) ==
    /\ pc = "idle" /\ run >= 1
    /\ k \in 1..Len(all_files) /\ k <= idx

\* C27: failed files are retried.  If processing of a file failed at any
\* step of its load sequence, then after the run the file's identifier is
\* not among the stored match identifiers, so that the gate returns the
\* file again on the next run.
C27_FailedFilesRetried ==
    \A k \in 1..Len(all_files) :
        (ProcessedInEndedRun(k) /\ all_files[k].kind \in FailingKinds) =>
            /\ StemOf(all_files[k].fn) \notin matches
            /\ \E i \in 1..Len(GetFilesToProcess(matches, json_files)) :
                  GetFilesToProcess(matches, json_files)[i] = all_files[k]

-----------------------------------------------------------------------------
(* Reconciliation of the scraped frame against match_summary               *)
(* (MissingMatchesLoader).  A scraped row carries icc_id, start_date,      *)
(* team1, team2, toss_result, match_result and venue_nation; venue_name    *)
(* and city are carried through by the code untouched and are left out.    *)

MaxScrape == 2
MaxDb == 2

IccIds == {1, 2}

BaseSummary ==
    [start_date |-> "2024-03-01", team1 |-> "A", team2 |-> "B",
     toss_result |-> "B won the toss and chose to field",
     match_result |-> "A won by 5 wickets", venue_nation |-> "X"]

(* Canonical rows: the base fixture, the same with another result text,    *)
(* and the same with its sides listed the other way round.                 *)
DbSummaries ==
    { BaseSummary,
      [BaseSummary EXCEPT !.match_result = "A won by 4 wickets"],
      [BaseSummary EXCEPT !.team1 = "B", !.team2 = "A"] }

(* Scraped fixtures: the base fixture and its drifts in date, toss text    *)
(* and venue nation.                                                       *)
IccSummaries ==
    { BaseSummary,
      [BaseSummary EXCEPT !.start_date = "2024-03-02"],
      [BaseSummary EXCEPT !.toss_result = "A won the toss and chose to bat"],
      [BaseSummary EXCEPT !.venue_nation = "Y"] }

(* The fixtures used where several runs follow one another (SpecRun). *)
RunSummaries ==
    { BaseSummary, [BaseSummary EXCEPT !.match_result = "A won by 4 wickets"] }

Scraped(S) ==
    { [icc_id |-> i, start_date |-> t.start_date, team1 |-> t.team1, team2 |-> t.team2,
       toss_result |-> t.toss_result, match_result |-> t.match_result,
       venue_nation |-> t.venue_nation] : i \in IccIds, t \in S }

(* Position of a team name in the order Python's sorted() puts strings in. *)
StrRank(name) ==
    CASE name = "A" -> 1 [] name = "A " -> 2 [] name = "B" -> 3 [] name = "a" -> 4

(* The team pair as scraped, without sorted(). *)
MatchTeamsKeyUnsorted(r) == <<r.team1, r.team2>>

(* tuple(sorted([str(team1), str(team2)])) *)
MatchTeamsKey(r) ==
    IF StrRank(r.team1) <= StrRank(r.team2) THEN <<r.team1, r.team2>> ELSE <<r.team2, r.team1>>

(* join_keys = start_date, match_teams_key, match_result, toss_result, venue_nation *)
JoinKeysEqual(a, b) ==
    /\ a.start_date = b.start_date
    /\ MatchTeamsKey(a) = MatchTeamsKey(b)
    /\ a.match_result = b.match_result
    /\ a.toss_result = b.toss_result
    /\ a.venue_nation = b.venue_nation

(* df.drop_duplicates(subset=['icc_id'], keep='first') *)
RECURSIVE DropDuplicates(_, _)
DropDuplicates(df, seen) ==
    IF df = <<>> THEN <<>>
    ELSE IF Head(df).icc_id \in seen
           THEN DropDuplicates(Tail(df), seen)
           ELSE <<Head(df)>> \o DropDuplicates(Tail(df), seen \cup {Head(df).icc_id})

(* The collapser with keep='last'. *)
HandleIccDuplicatesKeepLast(df) ==
    LET Rev(s) == [i \in 1..Len(s) |-> s[Len(s) + 1 - i]]
    IN Rev(DropDuplicates(Rev(df), {}))

(* MissingMatchesLoader._handle_icc_duplicates *)
HandleIccDuplicates(df) ==
    IF df /= <<>> /\ (\E i, j \in 1..Len(df) : i /= j /\ df[i].icc_id = df[j].icc_id)
      THEN DropDuplicates(df, {})
      ELSE df

(* The right merge looking at the first scraped row only. *)
UnmatchedDbFirstRow(icc, db) ==
    LET Alone(b) == icc = <<>> \/ ~JoinKeysEqual(icc[1], b)
    IN SelectSeq(db, Alone)

(* Rows of pd.merge(icc, db, how='right', indicator=True) flagged          *)
(* 'right_only': the canonical rows no scraped row joins on all join keys. *)
UnmatchedDb(icc, db) ==
    LET Alone(b) == \A i \in 1..Len(icc) : ~JoinKeysEqual(icc[i], b)
    IN SelectSeq(db, Alone)

(* pd.merge(icc, db[join_keys], how='left', indicator=True): left order is *)
(* kept, a left row appears once per canonical row it joins ('both') or    *)
(* once alone ('left_only').                                               *)
RECURSIVE MergeLeft(_, _)
MergeLeft(icc, db) ==
    IF icc = <<>> THEN <<>>
    ELSE LET a == Head(icc)
             Joins(b) == JoinKeysEqual(a, b)
             hits == SelectSeq(db, Joins)
             rows == IF hits = <<>>
                       THEN << [row |-> a, merge |-> "left_only"] >>
                       ELSE [k \in 1..Len(hits) |-> [row |-> a, merge |-> "both"]]
         IN rows \o MergeLeft(Tail(icc), db)

RowsFlagged(merged, flag) ==
    LET Flagged(m) == m.merge = flag
        sel == SelectSeq(merged, Flagged)
    IN [k \in 1..Len(sel) |-> sel[k].row]

(* Test 1 with match_result left among the join keys. *)
ResultMismatchesOnAllKeys(unmatched_db, icc) ==
    { [kind |-> "RESULT MISMATCH", teams |-> MatchTeamsKey(unmatched_db[j]),
       start_date |-> unmatched_db[j].start_date,
       db |-> unmatched_db[j].match_result, icc |-> icc[i].match_result] :
        <<j, i>> \in { p \in (1..Len(unmatched_db)) \X (1..Len(icc)) :
                         /\ unmatched_db[p[1]].start_date = icc[p[2]].start_date
                         /\ MatchTeamsKey(unmatched_db[p[1]]) = MatchTeamsKey(icc[p[2]])
                         /\ unmatched_db[p[1]].match_result = icc[p[2]].match_result
                         /\ unmatched_db[p[1]].venue_nation = icc[p[2]].venue_nation } }

(* Test 1 of _log_diagnostics: inner join on start_date, match_teams_key,  *)
(* venue_nation; one warning per joined pair.                              *)
ResultMismatches(unmatched_db, icc) ==
    { [kind |-> "RESULT MISMATCH", teams |-> MatchTeamsKey(unmatched_db[j]),
       start_date |-> unmatched_db[j].start_date,
       db |-> unmatched_db[j].match_result, icc |-> icc[i].match_result] :
        <<j, i>> \in { p \in (1..Len(unmatched_db)) \X (1..Len(icc)) :
                         /\ unmatched_db[p[1]].start_date = icc[p[2]].start_date
                         /\ MatchTeamsKey(unmatched_db[p[1]]) = MatchTeamsKey(icc[p[2]])
                         /\ unmatched_db[p[1]].venue_nation = icc[p[2]].venue_nation } }

(* Test 2: inner join on match_teams_key, match_result; warning when the   *)
(* dates differ.                                                           *)
DateMismatches(unmatched_db, icc) ==
    { [kind |-> "DATE MISMATCH", teams |-> MatchTeamsKey(unmatched_db[j]),
       db |-> unmatched_db[j].start_date, icc |-> icc[i].start_date] :
        <<j, i>> \in { p \in (1..Len(unmatched_db)) \X (1..Len(icc)) :
                         /\ MatchTeamsKey(unmatched_db[p[1]]) = MatchTeamsKey(icc[p[2]])
                         /\ unmatched_db[p[1]].match_result = icc[p[2]].match_result
                         /\ unmatched_db[p[1]].start_date /= icc[p[2]].start_date } }

(* Test 3: inner join on start_date, match_teams_key, match_result;        *)
(* warning when the toss texts differ.                                     *)
TossMismatches(unmatched_db, icc) ==
    { [kind |-> "TOSS MISMATCH", teams |-> MatchTeamsKey(unmatched_db[j]),
       start_date |-> unmatched_db[j].start_date,
       db |-> unmatched_db[j].toss_result, icc |-> icc[i].toss_result] :
        <<j, i>> \in { p \in (1..Len(unmatched_db)) \X (1..Len(icc)) :
                         /\ unmatched_db[p[1]].start_date = icc[p[2]].start_date
                         /\ MatchTeamsKey(unmatched_db[p[1]]) = MatchTeamsKey(icc[p[2]])
                         /\ unmatched_db[p[1]].match_result = icc[p[2]].match_result
                         /\ unmatched_db[p[1]].toss_result /= icc[p[2]].toss_result } }

(* MissingMatchesLoader._log_diagnostics *)
LogDiagnostics(unmatched_db, icc) ==
    ResultMismatches(unmatched_db, icc) \cup DateMismatches(unmatched_db, icc)
        \cup TossMismatches(unmatched_db, icc)

(* MissingMatchesLoader._check_nation_mismatches (test 4): inner join of   *)
(* the missing rows with match_summary on start_date, match_teams_key,     *)
(* match_result, toss_result; one warning per joined pair.                 *)
CheckNationMismatches(missing_rows, db) ==
    { [kind |-> "NATION MISMATCH", teams |-> <<missing_rows[i].team1, missing_rows[i].team2>>,
       start_date |-> missing_rows[i].start_date,
       icc |-> missing_rows[i].venue_nation, db |-> db[j].venue_nation] :
        <<i, j>> \in { p \in (1..Len(missing_rows)) \X (1..Len(db)) :
                         /\ missing_rows[p[1]].start_date = db[p[2]].start_date
                         /\ MatchTeamsKey(missing_rows[p[1]]) = MatchTeamsKey(db[p[2]])
                         /\ missing_rows[p[1]].match_result = db[p[2]].match_result
                         /\ missing_rows[p[1]].toss_result = db[p[2]].toss_result } }

(* MissingMatchesLoader._identify_missing_matches *)
IdentifyMissingMatches(icc, db) ==
    IF db = <<>>
      THEN [exact |-> <<>>, missing |-> icc, diag |-> {}]
      ELSE LET unmatched_db == UnmatchedDb(icc, db)
               merged == MergeLeft(icc, db)
               left_only == RowsFlagged(merged, "left_only")
           IN [exact |-> RowsFlagged(merged, "both"),
               missing |-> left_only,
               diag |-> (IF unmatched_db /= <<>> THEN LogDiagnostics(unmatched_db, icc) ELSE {})
                           \cup CheckNationMismatches(left_only, db)]

SeqRange(s) == { s[i] : i \in 1..Len(s) }

(* _insert_missing_matches: one executemany INSERT, committed as a whole;  *)
(* a repeated icc_id (the table's primary key) fails the whole statement.  *)
InsertFails(table, rows) ==
    \/ \E i \in 1..Len(rows) : \E t \in table : t.icc_id = rows[i].icc_id
    \/ \E i, j \in 1..Len(rows) : i /= j /\ rows[i].icc_id = rows[j].icc_id

InsertMissingMatches(table, rows) == table \cup SeqRange(rows)

(* prepare_for_update without the DELETE. *)
KeepMissingMatches(table) == table

(* DELETE FROM missing_matches *)
DeleteFromMissingMatches(table) == {}

-----------------------------------------------------------------------------
(* Ingestion variables are idle under SpecRecon and SpecRun. *)
IngestIdle ==
    /\ json_files = <<>>
    /\ matches = {} /\ match_metadata = {} /\ match_players = {} /\ deliveries = {}
    /\ all_files = <<>> /\ idx = 0 /\ pc = "idle" /\ run = 0
    /\ prev_run = [status |-> "none", matches |-> {}, match_metadata |-> {},
                   match_players |-> {}, deliveries |-> {}]

(* scraper.scrape_period(...) as called by load_all_cricsheet_data *)
ScrapePeriod(rows) ==
    /\ rpc = "scrape"
    /\ \E df \in SeqsUpTo(rows, MaxScrape) : icc_df' = df
    /\ rpc' = "reconcile"
    /\ UNCHANGED <<db_df, icc_dedup, exact_matches, missing, diag, missing_matches,
                   rrun, full_reset, mm_before, db_loaded>>

(* The tail of load_all_cricsheet_data: an empty frame skips the missing   *)
(* matches and weather steps; otherwise update_missing_matches runs (the   *)
(* weather step that follows writes neither match_summary's columns nor    *)
(* missing_matches).                                                       *)
UpdateMissingMatches ==
    /\ rpc = "reconcile"
    /\ IF icc_df = <<>>
         THEN /\ rpc' = "done"
              /\ UNCHANGED <<icc_dedup, exact_matches, missing, diag, missing_matches>>
         ELSE LET dedup == HandleIccDuplicates(icc_df)
                  res == IdentifyMissingMatches(dedup, db_df)
              IN /\ icc_dedup' = dedup
                 /\ exact_matches' = res.exact
                 /\ missing' = res.missing
                 /\ diag' = res.diag
                 /\ IF res.missing = <<>>
                      THEN rpc' = "done" /\ missing_matches' = missing_matches
                      ELSE IF InsertFails(missing_matches, res.missing)
                             THEN rpc' = "failed" /\ missing_matches' = missing_matches
                             ELSE /\ rpc' = "done"
                                  /\ missing_matches' = InsertMissingMatches(missing_matches, res.missing)
    /\ UNCHANGED <<db_df, icc_df, rrun, full_reset, mm_before, db_loaded>>

InitRecon ==
    /\ IngestIdle
    /\ KeyIdle
    /\ DelivIdle
    /\ StatsIdle /\ WriteIdle /\ ResolveIdle /\ MatchIdle /\ FlagsIdle
    /\ db_df \in SeqsUpTo(DbSummaries, MaxDb)
    /\ icc_df = <<>> /\ icc_dedup = <<>>
    /\ exact_matches = <<>> /\ missing = <<>> /\ diag = {}
    /\ missing_matches = {}
    /\ rpc = "scrape" /\ rrun = 1
    /\ full_reset = FALSE /\ mm_before = {} /\ db_loaded = db_df

NextRecon ==
    \/ (ScrapePeriod(Scraped(IccSummaries)) /\ UNCHANGED nonRecon)
    \/ (UpdateMissingMatches /\ UNCHANGED nonRecon)

SpecRecon == InitRecon /\ [][NextRecon]_vars

-----------------------------------------------------------------------------
(* Properties of one reconciliation pass (SpecRecon) *)

Reconciled == rpc = "done" /\ icc_df /= <<>>

(* Equality of a scraped and a canonical record on date, unordered team    *)
(* pair, result text, toss text and venue nation.                          *)
FiveFieldEqual(a, b) ==
    /\ a.start_date = b.start_date
    /\ {a.team1, a.team2} = {b.team1, b.team2}
    /\ a.match_result = b.match_result
    /\ a.toss_result = b.toss_result
    /\ a.venue_nation = b.venue_nation

HasCanonicalTwin(a) == \E j \in 1..Len(db_df) : FiveFieldEqual(a, db_df[j])
HasScrapedTwin(b) == \E i \in 1..Len(icc_dedup) : FiveFieldEqual(icc_dedup[i], b)

\* C5: reconciliation partition. Every record of the deduplicated scraped
\* set is in exactly one of Exact and Missing, it is in Exact iff some
\* canonical record equals it on all five fields, neither part holds
\* anything else, and with an empty canonical set Missing is the whole
\* scraped set and Exact is empty.
C5_Partition ==
    Reconciled =>
        /\ \A a \in SeqRange(icc_dedup) :
              /\ (a \in SeqRange(exact_matches)) /= (a \in SeqRange(missing))
              /\ (a \in SeqRange(exact_matches)) <=> HasCanonicalTwin(a)
        /\ SeqRange(exact_matches) \cup SeqRange(missing) \subseteq SeqRange(icc_dedup)
        /\ (db_df = <<>> => (missing = icc_dedup /\ exact_matches = <<>>))

C5_Witness ==
    /\ Reconciled
    /\ exact_matches /= <<>> /\ missing /= <<>>
    /\ \E a \in SeqRange(exact_matches) : \E j \in 1..Len(db_df) :
          FiveFieldEqual(a, db_df[j]) /\ a.team1 /= db_df[j].team1

DiffersOnlyInResult(a, b) ==
    /\ a.start_date = b.start_date
    /\ {a.team1, a.team2} = {b.team1, b.team2}
    /\ a.toss_result = b.toss_result
    /\ a.venue_nation = b.venue_nation
    /\ a.match_result /= b.match_result

ResultMismatchLogged(a, b) ==
    \E d \in diag : /\ d.kind = "RESULT MISMATCH"
                    /\ d.start_date = b.start_date
                    /\ d.db = b.match_result
                    /\ d.icc = a.match_result

\* C8 (as claimed): result drift. Whenever a canonical and a scraped record
\* agree on date, team pair, toss text and venue nation and differ only in
\* result text, the scraped record is Missing and not Exact, and a result
\* mismatch diagnostic quoting both result texts is logged.
C8_ResultDrift ==
    Reconciled =>
        \A a \in SeqRange(icc_dedup) : \A b \in SeqRange(db_df) :
            DiffersOnlyInResult(a, b) =>
                /\ a \in SeqRange(missing)
                /\ a \notin SeqRange(exact_matches)
                /\ ResultMismatchLogged(a, b)

\* C8 (amended): the same, for a pair neither member of which has a twin on
\* all five fields in the other set (a scraped record with a canonical twin
\* is Exact; a canonical record with a scraped twin is not diagnosed).
C8_ResultDriftUnmatched ==
    Reconciled =>
        \A a \in SeqRange(icc_dedup) : \A b \in SeqRange(db_df) :
            (DiffersOnlyInResult(a, b) /\ ~HasCanonicalTwin(a) /\ ~HasScrapedTwin(b)) =>
                /\ a \in SeqRange(missing)
                /\ a \notin SeqRange(exact_matches)
                /\ ResultMismatchLogged(a, b)

C8_Witness ==
    /\ Reconciled
    /\ \E a \in SeqRange(icc_dedup) : \E b \in SeqRange(db_df) :
          /\ DiffersOnlyInResult(a, b) /\ ~HasCanonicalTwin(a) /\ ~HasScrapedTwin(b)
          /\ a \in SeqRange(missing)
          /\ ResultMismatchLogged(a, b)

(* Every reordering of a sequence. *)
Reorderings(s) == { [i \in 1..Len(s) |-> s[p[i]]] : p \in Permutations(1..Len(s)) }

SameOutcome(res) ==
    /\ SeqRange(res.exact) = SeqRange(exact_matches)
    /\ SeqRange(res.missing) = SeqRange(missing)
    /\ res.diag = diag

\* C9 (as claimed): order independence. Reordering the scraped frame handed
\* to update_missing_matches, or the canonical rows, leaves the Exact set,
\* the Missing set and the set of mismatch diagnoses as they are.
C9_OrderIndependent ==
    Reconciled =>
        \A p \in Reorderings(icc_df) : \A q \in Reorderings(db_df) :
            SameOutcome(IdentifyMissingMatches(HandleIccDuplicates(p), q))

\* C9 (amended): reordering the deduplicated scraped set, or the canonical
\* rows, leaves the Exact set, the Missing set and the set of mismatch
\* diagnoses as they are.  (Reordering the raw frame can change which of two
\* rows sharing an icc_id is kept.)
C9_OrderIndependentDedup ==
    Reconciled =>
        \A p \in Reorderings(icc_dedup) : \A q \in Reorderings(db_df) :
            SameOutcome(IdentifyMissingMatches(p, q))

C9_Witness ==
    /\ Reconciled
    /\ Len(icc_dedup) = 2 /\ Len(db_df) = 2
    /\ icc_dedup[1] /= icc_dedup[2] /\ db_df[1] /= db_df[2]
    /\ exact_matches /= <<>> /\ missing /= <<>> /\ diag /= {}

FirstIndexOf(id) ==
    CHOOSE i \in 1..Len(icc_df) :
        /\ icc_df[i].icc_id = id
        /\ \A j \in 1..(i - 1) : icc_df[j].icc_id /= id

-----------------------------------------------------------------------------
(* Run-level life of the backlog (SpecRun): running.main run after run.    *)
(* Ingestion is taken as a whole here: a run stores the matches of at most *)
(* one new source file, which adds their rows to match_summary.            *)

ClearPass ==
    /\ icc_df' = <<>> /\ icc_dedup' = <<>>
    /\ exact_matches' = <<>> /\ missing' = <<>> /\ diag' = {}

(* main(full_reset=False): prepare_for_update() *)
PrepareForUpdate ==
    /\ rpc = "idle"
    /\ rrun < MaxRuns
    /\ rrun' = rrun + 1
    /\ full_reset' = FALSE
    /\ mm_before' = missing_matches
    /\ missing_matches' = DeleteFromMissingMatches(missing_matches)
    /\ rpc' = "ingest"
    /\ ClearPass
    /\ UNCHANGED <<db_df, db_loaded>>

(* main(full_reset=True): reset_database() drops and recreates every table *)
ResetDatabase ==
    /\ rpc = "idle"
    /\ rrun < MaxRuns
    /\ rrun' = rrun + 1
    /\ full_reset' = TRUE
    /\ mm_before' = missing_matches
    /\ missing_matches' = {}
    /\ db_df' = <<>>
    /\ rpc' = "ingest"
    /\ ClearPass
    /\ UNCHANGED db_loaded

(* The ingestion loop of load_all_cricsheet_data, seen from match_summary *)
IngestMatches ==
    /\ rpc = "ingest"
    /\ \E new \in SeqsUpTo(RunSummaries, 1) :
          /\ Len(db_df) + Len(new) <= MaxDb
          /\ db_df' = db_df \o new
    /\ db_loaded' = db_df'
    /\ rpc' = "scrape"
    /\ UNCHANGED <<icc_df, icc_dedup, exact_matches, missing, diag, missing_matches,
                   rrun, full_reset, mm_before>>

(* main returns; the frames of the pass are gone with the process *)
EndRun ==
    /\ rpc \in {"done", "failed"}
    /\ rpc' = "idle"
    /\ ClearPass
    /\ mm_before' = missing_matches
    /\ UNCHANGED <<db_df, missing_matches, rrun, full_reset, db_loaded>>

InitRun ==
    /\ IngestIdle
    /\ KeyIdle
    /\ DelivIdle
    /\ StatsIdle /\ WriteIdle /\ ResolveIdle /\ MatchIdle /\ FlagsIdle
    /\ db_df = <<>>
    /\ icc_df = <<>> /\ icc_dedup = <<>>
    /\ exact_matches = <<>> /\ missing = <<>> /\ diag = {}
    /\ missing_matches = {}
    /\ rpc = "idle" /\ rrun = 0
    /\ full_reset = FALSE /\ mm_before = {} /\ db_loaded = <<>>

NextRun ==
    \/ (PrepareForUpdate /\ UNCHANGED nonRecon)
    \/ (ResetDatabase /\ UNCHANGED nonRecon)
    \/ (IngestMatches /\ UNCHANGED nonRecon)
    \/ (ScrapePeriod(Scraped(RunSummaries)) /\ UNCHANGED nonRecon)
    \/ (UpdateMissingMatches /\ UNCHANGED nonRecon)
    \/ (EndRun /\ UNCHANGED nonRecon)

SpecRun == InitRun /\ [][NextRun]_vars

(* The scraped records of this run that survive deduplication and have no  *)
(* canonical twin on all five fields.                                      *)
MissingThisRun ==
    { icc_df[i] : i \in { k \in 1..Len(icc_df) :
                            /\ FirstIndexOf(icc_df[k].icc_id) = k
                            /\ ~HasCanonicalTwin(icc_df[k]) } }

\* C6: backlog replacement. After a completed run whose scrape returned at
\* least one record, table missing_matches holds exactly the records
\* classified Missing in that run: an entry of an earlier run is there only
\* if it is Missing again, and no Exact record is there.
C6_BacklogReplaced ==
    Reconciled =>
        /\ missing_matches = MissingThisRun
        /\ \A r \in mm_before : r \in missing_matches => r \in SeqRange(missing)
        /\ \A r \in SeqRange(exact_matches) : r \notin missing_matches

C6_Witness ==
    /\ Reconciled /\ rrun = 2 /\ ~full_reset
    /\ \E r \in mm_before : r \notin missing_matches
    /\ missing_matches /= {}
    /\ exact_matches /= <<>>

\* C7: an empty scrape is a no-op. In an update run whose scrape returned no
\* record, the backlog after the run is the backlog before the run, and
\* match_summary is as ingestion left it.
C7_EmptyScrapeNoOp ==
    (rpc = "done" /\ ~full_reset /\ icc_df = <<>>) =>
        /\ missing_matches = mm_before
        /\ db_df = db_loaded

-----------------------------------------------------------------------------
(* The identity key (SpecKey): the columns both frames are joined on to    *)
(* tell whether two records are the same fixture, start_date and the       *)
(* match_teams_key built from team1 and team2.                             *)

TeamNames == {"A", "A ", "B", "a"}
StartDates == {"2024-03-01", "2024-03-02"}

MatchLike ==
    { r \in [start_date : StartDates, team1 : TeamNames, team2 : TeamNames] :
        r.team1 /= r.team2 }

(* start_date and match_teams_key, the part of join_keys that names the    *)
(* fixture                                                                  *)
IdentityKey(r) == <<r.start_date, MatchTeamsKey(r)>>

BuildKeys ==
    /\ kpc = "build"
    /\ key_a' = IdentityKey(rec_a)
    /\ key_b' = IdentityKey(rec_b)
    /\ kpc' = "done"
    /\ UNCHANGED <<rec_a, rec_b>>

InitKey ==
    /\ IngestIdle /\ ReconIdle /\ DelivIdle /\ StatsIdle /\ WriteIdle /\ ResolveIdle /\ MatchIdle /\ FlagsIdle
    /\ rec_a \in MatchLike /\ rec_b \in MatchLike
    /\ key_a = <<>> /\ key_b = <<>>
    /\ kpc = "build"

NextKey ==
    \/ (BuildKeys /\ UNCHANGED nonKey)

SpecKey == InitKey /\ [][NextKey]_vars

(* A team name with its letter case and surrounding whitespace normalised. *)
NormalizedName(name) ==
    CASE name = "a" -> "A" [] name = "A " -> "A" [] OTHER -> name

SameFixture(a, b) ==
    /\ a.start_date = b.start_date
    /\ {NormalizedName(a.team1), NormalizedName(a.team2)}
         = {NormalizedName(b.team1), NormalizedName(b.team2)}

\* C11: identity key equality. Two match-like records get the same key if
\* and only if they have the same date and the same unordered pair of team
\* names after case and whitespace normalisation.
C11_KeyEquality ==
    kpc = "done" => ((key_a = key_b) <=> SameFixture(rec_a, rec_b))

\* C11, the part that does not rest on normalisation: listing the two sides
\* the other way round does not change the key.
C11_SideOrderIrrelevant ==
    (kpc = "done" /\ rec_a.start_date = rec_b.start_date
       /\ rec_a.team1 = rec_b.team2 /\ rec_a.team2 = rec_b.team1) => key_a = key_b

-----------------------------------------------------------------------------
(* Deliveries of one match (SpecDeliv): DeliveriesExtractor.generate_df    *)
(* builds one row per raw delivery, DeliveriesLoader.load_deliveries       *)
(* converts the frame and inserts it into table deliveries, whose CHECK    *)
(* constraints and triggers accept or abort the statement.                 *)

MaxBatch == 2

(* SQL NULL / Python None in a text column, and in a nullable integer one. *)
Null == "NULL"
NullInt == -1

(* info.registry.people of the file: the names it resolves. *)
Registry == [P1 |-> "p1", P2 |-> "p2", P3 |-> "p3", F1 |-> "f1", F2 |-> "f2",
             F3 |-> "f3", U1 |-> "u1", U9 |-> "u9"]

(* dict.get(name): None for a missing name and for a name not in the dict. *)
DictGet(dict, name) == IF name \in DOMAIN dict THEN dict[name] ELSE Null

(* maps['teams_men'] / maps['teams_women'] *)
ActiveTeamMap == [T1 |-> "t1", T2 |-> "t2", T3 |-> "t3"]

(* The match row of the file: its two sides and its officials. *)
MatchTeamIds == {"t1", "t2"}
MatchOfficialIds == {"u1"}
BattingTeam == "T1"

NoWicket == [present |-> FALSE]
NoReview == [present |-> FALSE]

FielderNames == <<"F1", "F2", "F3">>

(* wickets.0 of a raw delivery: kind may be missing, player_out may be a   *)
(* name the registry does not hold, fielders lists zero to three names.    *)
RawWickets ==
    { NoWicket }
      \cup { [present |-> TRUE, kind |-> k, player_out |-> "P1", nfielders |-> n] :
               k \in {Null, "bowled", "caught", "run out"}, n \in 0..3 }
      \cup { [present |-> TRUE, kind |-> "bowled", player_out |-> "X", nfielders |-> 0] }

(* review of a raw delivery: by is the batting side, the bowling side, a   *)
(* side that played no part or an unknown name; umpire is a match          *)
(* official, a registered person who is not one, or not given.             *)
RawReviews ==
    { NoReview }
      \cup { [present |-> TRUE, by |-> b, umpire |-> u, decision |-> "struck down",
              umpires_call |-> FALSE] :
               b \in {"T1", "T2", "T3", "T9"}, u \in {"U1", "U9", Null} }
      \cup { [present |-> TRUE, by |-> "T2", umpire |-> "U1", decision |-> "upheld",
              umpires_call |-> TRUE] }

(* runs and extras of a raw delivery *)
RawRuns ==
    { [batter |-> 0, extras |-> 0, total |-> 0, wides |-> 0, noballs |-> 0],
      [batter |-> 1, extras |-> 0, total |-> 1, wides |-> 0, noballs |-> 0],
      [batter |-> 1, extras |-> 0, total |-> 2, wides |-> 0, noballs |-> 0],
      [batter |-> 0, extras |-> 1, total |-> 1, wides |-> 1, noballs |-> 0],
      [batter |-> 0, extras |-> 2, total |-> 2, wides |-> 1, noballs |-> 1] }

PlainRuns == [batter |-> 0, extras |-> 0, total |-> 0, wides |-> 0, noballs |-> 0]

(* Raw deliveries: a plain ball with one of its parts varied. *)
RawDeliveries ==
    { [runs |-> r, wicket |-> NoWicket, review |-> NoReview] : r \in RawRuns }
      \cup { [runs |-> PlainRuns, wicket |-> w, review |-> NoReview] : w \in RawWickets }
      \cup { [runs |-> PlainRuns, wicket |-> NoWicket, review |-> v] : v \in RawReviews }

(* DeliveriesExtractor._get_fielder_id *)
GetFielderId(fielder_data) ==
    IF fielder_data.substitute THEN "substitute"
    ELSE DictGet(Registry, fielder_data.name)

FielderData(k) == [substitute |-> FALSE, name |-> FielderNames[k]]

(* DeliveriesExtractor._extract_review_info *)
ExtractReviewInfo(review) ==
    LET review_by_batting_team == review.by = BattingTeam
        ump_decision == IF review_by_batting_team THEN "out" ELSE "not out"
    IN [review_ump_id |-> IF review.umpire /= Null THEN DictGet(Registry, review.umpire) ELSE Null,
        review_by |-> review.by,
        ump_decision |-> ump_decision,
        review_result |-> IF review.decision = "struck down" THEN ump_decision
                          ELSE IF review_by_batting_team THEN "not out" ELSE "out",
        review_batter_id |-> IF review_by_batting_team THEN DictGet(Registry, "P1") ELSE Null,
        umpires_call |-> IF review.umpires_call THEN 1 ELSE 0]

NoReviewInfo ==
    [review_ump_id |-> Null, review_by |-> Null, ump_decision |-> Null,
     review_result |-> Null, review_batter_id |-> Null, umpires_call |-> NullInt]

FielderKinds == {"caught", "caught and bowled", "stumped", "run out"}

(* The body of the delivery loop of DeliveriesExtractor.generate_df, for   *)
(* ball k of the first over of the first innings.                          *)
DeliveryDict(raw, k) ==
    LET w == raw.wicket
        bowler_id == DictGet(Registry, "P2")
        how_out == IF w.present THEN w.kind ELSE Null
        listed1 == IF w.present /\ w.nfielders > 0 THEN GetFielderId(FielderData(1)) ELSE Null
        fielder1 == IF w.present /\ how_out = "caught and bowled" /\ listed1 = Null
                      THEN bowler_id ELSE listed1
        info == IF raw.review.present THEN ExtractReviewInfo(raw.review) ELSE NoReviewInfo
    IN [balls |-> k,
        batter_id |-> DictGet(Registry, "P1"),
        bowler_id |-> bowler_id,
        runs_batter |-> raw.runs.batter,
        runs_extras |-> raw.runs.extras,
        runs_total |-> raw.runs.total,
        wickets |-> IF w.present THEN 1 ELSE 0,
        player_out_id |-> IF w.present THEN DictGet(Registry, w.player_out) ELSE Null,
        how_out |-> how_out,
        fielder1_id |-> fielder1,
        fielder2_id |-> IF w.present /\ w.nfielders > 1 THEN GetFielderId(FielderData(2)) ELSE Null,
        fielder3_id |-> IF w.present /\ w.nfielders > 2 THEN GetFielderId(FielderData(3)) ELSE Null,
        fielder_missing |-> IF w.present /\ how_out \in FielderKinds /\ fielder1 = Null THEN 1 ELSE 0,
        extras_noballs |-> raw.runs.noballs,
        extras_wides |-> raw.runs.wides,
        review |-> IF raw.review.present THEN 1 ELSE 0,
        ump_decision |-> info.ump_decision,
        review_by |-> info.review_by,
        review_ump_id |-> info.review_ump_id,
        review_batter_id |-> info.review_batter_id,
        review_result |-> info.review_result,
        umpires_call |-> info.umpires_call]

(* db_columns of load_deliveries: the columns the INSERT statement names. *)
DbColumns ==
    { "match_id", "innings", "overs", "balls", "batter_id", "bowler_id", "non_striker_id",
      "runs_batter", "runs_extras", "runs_total", "runs_batter_non_boundary", "wickets",
      "player_out_id", "how_out", "fielder1_id", "fielder2_id", "fielder3_id", "fielder_missing",
      "wickets2", "player_out2_id", "how_out2", "extras_byes", "extras_legbyes",
      "extras_noballs", "extras_penalty", "extras_wides", "review", "ump_decision",
      "review_by_id", "review_ump_id", "review_batter_id", "review_result", "umpires_call",
      "powerplay", "super_over" }

(* The columns CREATE TABLE deliveries declares. *)
TableColumns ==
    { "match_id", "innings", "overs", "balls", "batter_id", "bowler_id", "non_striker_id",
      "runs_batter", "runs_extras", "runs_total", "runs_batter_non_boundary", "wickets",
      "player_out_id", "how_out", "fielder1_id", "fielder2_id", "fielder3_id",
      "wickets2", "player_out2_id", "how_out2", "extras_byes", "extras_legbyes",
      "extras_noballs", "extras_penalty", "extras_wides", "review", "ump_decision",
      "review_by_id", "review_ump_id", "review_batter_id", "review_result", "umpires_call",
      "powerplay", "super_over", "created_at", "updated_at" }

(* The frame as load_deliveries hands it to the INSERT: review_by mapped   *)
(* to review_by_id, the columns of db_columns kept (the numeric columns    *)
(* are integers already, NaN becomes None).                                *)
ForDb(d) ==
    [balls |-> d.balls, batter_id |-> d.batter_id, bowler_id |-> d.bowler_id,
     runs_batter |-> d.runs_batter, runs_extras |-> d.runs_extras, runs_total |-> d.runs_total,
     wickets |-> d.wickets, player_out_id |-> d.player_out_id, how_out |-> d.how_out,
     fielder1_id |-> d.fielder1_id, fielder2_id |-> d.fielder2_id, fielder3_id |-> d.fielder3_id,
     fielder_missing |-> d.fielder_missing,
     extras_noballs |-> d.extras_noballs, extras_wides |-> d.extras_wides,
     review |-> d.review, ump_decision |-> d.ump_decision,
     review_by_id |-> DictGet(ActiveTeamMap, d.review_by),
     review_ump_id |-> d.review_ump_id, review_batter_id |-> d.review_batter_id,
     review_result |-> d.review_result, umpires_call |-> d.umpires_call]

(* SQL's three truth values: a comparison with NULL is unknown. *)
T3(b) == IF b THEN "T" ELSE "F"
And3(a, b) == IF a = "F" \/ b = "F" THEN "F" ELSE IF a = "U" \/ b = "U" THEN "U" ELSE "T"
Or3(a, b) == IF a = "T" \/ b = "T" THEN "T" ELSE IF a = "U" \/ b = "U" THEN "U" ELSE "F"
Eq3(x, v) == IF x = Null \/ v = Null THEN "U" ELSE T3(x = v)
In3(x, S) == IF x = Null THEN "U" ELSE T3(x \in S)
IsNull(x) == T3(x = Null)
NotNull(x) == T3(x /= Null)

HowOutKinds ==
    { "bowled", "caught", "caught and bowled", "lbw", "stumped", "run out", "hit wicket",
      "obstructing the field", "hit the ball twice", "handled the ball", "timed out",
      "retired hurt", "retired out", "retired not out" }

NoFielderKinds ==
    { "bowled", "lbw", "hit wicket", "obstructing the field", "hit the ball twice",
      "handled the ball", "timed out", "retired hurt", "retired out", "retired not out" }

(* The CHECK constraints written on columns of table deliveries. *)
ColumnChecks(r) ==
    << T3(r.runs_batter >= 0), T3(r.runs_extras >= 0), T3(r.runs_total >= 0),
       T3(r.wickets \in {0, 1}),
       In3(r.how_out, HowOutKinds),
       Or3(T3(r.extras_noballs = 0), And3(T3(r.extras_noballs >= 1), T3(r.runs_extras >= 1))),
       Or3(T3(r.extras_wides = 0), And3(T3(r.extras_wides >= 1), T3(r.runs_extras >= 1))),
       T3(r.review \in {0, 1}),
       Or3(IsNull(r.ump_decision),
           And3(In3(r.ump_decision, {"out", "not out"}), T3(r.review = 1))),
       In3(r.review_result, {"out", "not out"}),
       Or3(T3(r.umpires_call = NullInt),
           And3(T3(r.umpires_call \in {0, 1}), T3(r.review = 1))) >>

(* The CHECK constraints written on the table, in the order of the schema. *)
CheckPlayerOut(r) ==
    Or3(And3(IsNull(r.player_out_id), T3(r.wickets = 0)),
        And3(NotNull(r.player_out_id), T3(r.wickets = 1)))

CheckFielder1(r) ==
    Or3(And3(IsNull(r.fielder1_id),
             Or3(T3(r.wickets = 0), In3(r.how_out, NoFielderKinds))),
        And3(NotNull(r.fielder1_id), In3(r.how_out, FielderKinds)))

CheckFielder2(r) ==
    Or3(IsNull(r.fielder2_id),
        And3(NotNull(r.fielder2_id),
             And3(NotNull(r.fielder1_id), Eq3(r.how_out, "run out"))))

CheckFielder3(r) ==
    Or3(IsNull(r.fielder3_id),
        And3(NotNull(r.fielder3_id),
             And3(NotNull(r.fielder2_id),
                  And3(NotNull(r.fielder1_id), Eq3(r.how_out, "run out")))))

CheckReviewBatter(r) ==
    Or3(IsNull(r.review_batter_id), Eq3(r.review_batter_id, r.batter_id))

(* The wides / no-balls constraint with >= written for the first =. *)
CheckWidesNoballsLoose(r) == Or3(T3(r.extras_wides >= 0), T3(r.extras_noballs = 0))

(* CHECK (extras_wides = 0 OR extras_noballs = 0) *)
CheckWidesNoballs(r) == Or3(T3(r.extras_wides = 0), T3(r.extras_noballs = 0))

(* The total constraint as an inequality. *)
CheckRunsTotalAtLeast(r) == T3(r.runs_total >= r.runs_batter + r.runs_extras)

(* CHECK (runs_total = runs_batter + runs_extras) *)
CheckRunsTotal(r) == T3(r.runs_total = r.runs_batter + r.runs_extras)

CheckWickets(r) ==
    Or3(And3(T3(r.wickets = 1), NotNull(r.player_out_id)),
        And3(T3(r.wickets = 0), IsNull(r.player_out_id)))

(* The review constraint without the reviewing umpire in its first half. *)
CheckReviewNoUmpire(r) ==
    Or3(And3(T3(r.review = 1),
             And3(NotNull(r.review_by_id), NotNull(r.review_result))),
        And3(T3(r.review = 0),
             And3(IsNull(r.review_by_id),
                  And3(IsNull(r.review_ump_id), IsNull(r.review_result)))))

CheckReview(r) ==
    Or3(And3(T3(r.review = 1),
             And3(NotNull(r.review_by_id),
                  And3(NotNull(r.review_ump_id), NotNull(r.review_result)))),
        And3(T3(r.review = 0),
             And3(IsNull(r.review_by_id),
                  And3(IsNull(r.review_ump_id), IsNull(r.review_result)))))

CheckUmpDecision(r) ==
    Or3(And3(IsNull(r.ump_decision), T3(r.review = 0)),
        And3(NotNull(r.ump_decision), T3(r.review = 1)))

TableChecks(r) ==
    << CheckPlayerOut(r), CheckFielder1(r), CheckFielder2(r), CheckFielder3(r),
       CheckReviewBatter(r), CheckWidesNoballs(r), CheckRunsTotal(r), CheckWickets(r),
       CheckReview(r), CheckUmpDecision(r) >>

(* A CHECK fails only when its expression is false. *)
ChecksPass(r) ==
    /\ \A i \in 1..Len(ColumnChecks(r)) : ColumnChecks(r)[i] /= "F"
    /\ \A i \in 1..Len(TableChecks(r)) : TableChecks(r)[i] /= "F"

(* Triggers check_review_by_team and check_review_ump_official: TRUE when  *)
(* neither raises ABORT.                                                   *)
TriggersPass(r) ==
    /\ ~(r.review_by_id /= Null /\ r.review_by_id \notin MatchTeamIds)
    /\ (r.review_ump_id /= Null =>
          /\ r.review /= 0
          /\ r.review_ump_id \in MatchOfficialIds)

(* The row as table deliveries keeps it: the declared columns. *)
StoredRow(r) ==
    [balls |-> r.balls, batter_id |-> r.batter_id, bowler_id |-> r.bowler_id,
     runs_batter |-> r.runs_batter, runs_extras |-> r.runs_extras, runs_total |-> r.runs_total,
     wickets |-> r.wickets, player_out_id |-> r.player_out_id, how_out |-> r.how_out,
     fielder1_id |-> r.fielder1_id, fielder2_id |-> r.fielder2_id, fielder3_id |-> r.fielder3_id,
     extras_noballs |-> r.extras_noballs, extras_wides |-> r.extras_wides,
     review |-> r.review, ump_decision |-> r.ump_decision, review_by_id |-> r.review_by_id,
     review_ump_id |-> r.review_ump_id, review_batter_id |-> r.review_batter_id,
     review_result |-> r.review_result, umpires_call |-> r.umpires_call]

(* cursor.executemany(sql, data) in BaseLoader._execute_many: the          *)
(* statement is prepared against the table's columns, then every row is    *)
(* inserted; any error rolls the whole statement back.                     *)
ExecuteManyFails(cols, rows) ==
    \/ ~(DbColumns \subseteq cols)
    \/ \E i \in 1..Len(rows) : ~(ChecksPass(rows[i]) /\ TriggersPass(rows[i]))

(* DeliveriesExtractor.generate_df *)
GenerateDf ==
    /\ dpc = "extract"
    /\ df_rows' = [k \in 1..Len(raw_deliveries) |-> DeliveryDict(raw_deliveries[k], k)]
    /\ dpc' = "load"
    /\ UNCHANGED <<deliveries_cols, raw_deliveries, delivery_rows>>

(* DeliveriesLoader.load_deliveries *)
LoadDeliveriesFrame ==
    /\ dpc = "load"
    /\ IF df_rows = <<>>
         THEN dpc' = "done" /\ delivery_rows' = delivery_rows
         ELSE LET data == [k \in 1..Len(df_rows) |-> ForDb(df_rows[k])]
              IN IF ExecuteManyFails(deliveries_cols, data)
                   THEN dpc' = "rejected" /\ delivery_rows' = delivery_rows
                   ELSE /\ dpc' = "done"
                        /\ delivery_rows' = delivery_rows \cup { StoredRow(data[k]) : k \in 1..Len(data) }
    /\ UNCHANGED <<deliveries_cols, raw_deliveries, df_rows>>

(* The database file holds table deliveries either as create_schema.py     *)
(* declares it or with the fielder_missing column load_deliveries writes   *)
(* (_init_database creates the schema only in a file that has none).       *)
InitDeliv ==
    /\ IngestIdle /\ ReconIdle /\ KeyIdle /\ StatsIdle /\ WriteIdle /\ ResolveIdle /\ MatchIdle /\ FlagsIdle
    /\ deliveries_cols \in { TableColumns, TableColumns \cup {"fielder_missing"} }
    /\ raw_deliveries \in SeqsUpTo(RawDeliveries, MaxBatch)
    /\ df_rows = <<>>
    /\ delivery_rows = {}
    /\ dpc = "extract"

NextDeliv ==
    \/ (GenerateDf /\ UNCHANGED nonDeliv)
    \/ (LoadDeliveriesFrame /\ UNCHANGED nonDeliv)

SpecDeliv == InitDeliv /\ [][NextDeliv]_vars

(* Properties of the stored deliveries (SpecDeliv) *)

Loaded == dpc \in {"done", "rejected"}

RawRunsTotalWrong(raw) == raw.runs.total /= raw.runs.batter + raw.runs.extras

\* C12: every stored delivery has runs_total = runs_batter + runs_extras, and
\* a batch that contains a delivery violating it is rejected and stores no
\* delivery.
C12_RunsTotal ==
    /\ \A r \in delivery_rows : r.runs_total = r.runs_batter + r.runs_extras
    /\ (Loaded /\ \E k \in 1..Len(raw_deliveries) : RawRunsTotalWrong(raw_deliveries[k]))
          => (dpc = "rejected" /\ delivery_rows = {})

C12_Witness ==
    /\ dpc = "rejected" /\ "fielder_missing" \in deliveries_cols
    /\ Len(raw_deliveries) = 2
    /\ ~RawRunsTotalWrong(raw_deliveries[1]) /\ raw_deliveries[1].runs.total = 1
    /\ RawRunsTotalWrong(raw_deliveries[2])
    /\ ChecksPass(ForDb(df_rows[1])) /\ ~ChecksPass(ForDb(df_rows[2]))

\* C13: no stored delivery has both wides and no-balls nonzero.
C13_WidesOrNoballs ==
    \A r \in delivery_rows : r.extras_wides = 0 \/ r.extras_noballs = 0

C13_Witness ==
    /\ dpc = "done"
    /\ \E r \in delivery_rows : r.extras_wides = 1 /\ r.extras_noballs = 0

RawReviewIncomplete(raw) ==
    /\ raw.review.present
    /\ \/ raw.review.umpire = Null
       \/ DictGet(Registry, raw.review.umpire) = Null
       \/ DictGet(ActiveTeamMap, raw.review.by) = Null

\* C17: review all-or-nothing. For every stored delivery, review = 1 means
\* the reviewing side, the original umpire's call, the reviewing umpire and
\* the final result are all present; review = 0 means all four are absent
\* and the umpire's-call flag is absent. A batch with a raw delivery whose
\* review lacks any of them is rejected.
C17_ReviewAllOrNothing ==
    /\ \A r \in delivery_rows :
          /\ r.review \in {0, 1}
          /\ r.review = 1 => /\ r.review_by_id /= Null /\ r.ump_decision /= Null
                             /\ r.review_ump_id /= Null /\ r.review_result /= Null
          /\ r.review = 0 => /\ r.review_by_id = Null /\ r.ump_decision = Null
                             /\ r.review_ump_id = Null /\ r.review_result = Null
                             /\ r.umpires_call = NullInt
    /\ (Loaded /\ \E k \in 1..Len(raw_deliveries) : RawReviewIncomplete(raw_deliveries[k]))
          => (dpc = "rejected" /\ delivery_rows = {})

C17_Witness ==
    /\ dpc = "done"
    /\ \E r \in delivery_rows : r.review = 1 /\ r.umpires_call = 1
    /\ \E r \in delivery_rows : r.review = 0

-----------------------------------------------------------------------------
(* Career statistics (SpecStats): the views batting_stats and              *)
(* bowling_stats of create_schema.py, read over a stored deliveries table. *)

MaxRows == 2

(* Rows of table players. *)
Players == {"p1", "p2", "p3", "p4"}

(* runs_non_boundary_value of generate_df: non_boundary is the value of    *)
(* runs.non_boundary in the file ("true", "false", or Null when absent),   *)
(* here with every 4 and 6 taken for a boundary.                           *)
RunsNonBoundaryValueAlwaysBoundary(runs_batter, non_boundary) ==
    IF runs_batter \in {4, 6} THEN 0 ELSE NullInt

(* runs_non_boundary_value of generate_df *)
RunsNonBoundaryValue(runs_batter, non_boundary) ==
    IF runs_batter \in {4, 6}
      THEN IF non_boundary = "true" THEN 1 ELSE 0
      ELSE NullInt

(* A stored delivery of the first two innings: p1 on strike, p2 at the     *)
(* non-striker's end, p3 bowling, no run, no wicket, outside the           *)
(* powerplay. Field non_boundary keeps the runs.non_boundary value of the  *)
(* file next to the column computed from it; no view reads it.             *)
BaseBall ==
    [match_id |-> "m1", innings |-> 1, batter_id |-> "p1", non_striker_id |-> "p2",
     bowler_id |-> "p3", runs_batter |-> 0, non_boundary |-> Null,
     runs_batter_non_boundary |-> RunsNonBoundaryValue(0, Null),
     extras_wides |-> 0, extras_noballs |-> 0, extras_legbyes |-> 0,
     wickets |-> 0, player_out_id |-> Null, how_out |-> Null,
     wickets2 |-> 0, player_out2_id |-> Null, how_out2 |-> Null,
     powerplay |-> 0, super_over |-> 0]

(* generate_df: innings three and later are the super over; their         *)
(* powerplay end is (0, 0), so powerplay is 0 on every such delivery.      *)
SuperOverBall == [BaseBall EXCEPT !.innings = 3, !.super_over = 1]

Scored(ball, runs, non_boundary) ==
    [ball EXCEPT !.runs_batter = runs, !.non_boundary = non_boundary,
                 !.runs_batter_non_boundary = RunsNonBoundaryValue(runs, non_boundary)]

Out(ball, player, kind) ==
    [ball EXCEPT !.wickets = 1, !.player_out_id = player, !.how_out = kind]

Out2(ball, player, kind) ==
    [ball EXCEPT !.wickets2 = 1, !.player_out2_id = player, !.how_out2 = kind]

(* Deliveries as load_deliveries stores them, each satisfying the CHECK    *)
(* constraints of table deliveries.                                        *)
StatBalls ==
    { BaseBall,
      [BaseBall EXCEPT !.match_id = "m2"],
      Scored([BaseBall EXCEPT !.match_id = "m2", !.batter_id = "p4", !.non_striker_id = "p1"],
             1, Null),
      Scored([BaseBall EXCEPT !.powerplay = 1], 4, Null),
      Scored(BaseBall, 4, "true"),
      Scored(BaseBall, 6, "false"),
      Scored(BaseBall, 6, "true"),
      [BaseBall EXCEPT !.extras_wides = 1],
      [BaseBall EXCEPT !.extras_noballs = 1, !.powerplay = 1],
      Out(BaseBall, "p1", "bowled"),
      Out([BaseBall EXCEPT !.match_id = "m2"], "p1", "caught"),
      Out(BaseBall, "p1", "retired not out"),
      Out(BaseBall, "p2", "run out"),
      Out(BaseBall, "p4", "timed out"),
      Out2(Out(BaseBall, "p1", "retired hurt"), "p2", "run out"),
      Out2(Out(BaseBall, "p1", "retired out"), "p2", "run out"),
      SuperOverBall,
      Scored(SuperOverBall, 4, Null),
      [SuperOverBall EXCEPT !.batter_id = "p4", !.bowler_id = "p2", !.extras_noballs = 1],
      Out(SuperOverBall, "p1", "bowled") }

(* The table: the rows of up to MaxRows deliveries; row k is ball k of its *)
(* innings, so (match_id, innings, overs, balls) is unique.                *)
TableOf(balls) ==
    { [match_id |-> balls[k].match_id, innings |-> balls[k].innings, balls |-> k,
       batter_id |-> balls[k].batter_id, non_striker_id |-> balls[k].non_striker_id,
       bowler_id |-> balls[k].bowler_id, runs_batter |-> balls[k].runs_batter,
       non_boundary |-> balls[k].non_boundary,
       runs_batter_non_boundary |-> balls[k].runs_batter_non_boundary,
       extras_wides |-> balls[k].extras_wides, extras_noballs |-> balls[k].extras_noballs,
       extras_legbyes |-> balls[k].extras_legbyes,
       wickets |-> balls[k].wickets, player_out_id |-> balls[k].player_out_id,
       how_out |-> balls[k].how_out, wickets2 |-> balls[k].wickets2,
       player_out2_id |-> balls[k].player_out2_id, how_out2 |-> balls[k].how_out2,
       powerplay |-> balls[k].powerplay, super_over |-> balls[k].super_over] :
      k \in 1..Len(balls) }

Not3(a) == IF a = "T" THEN "F" ELSE IF a = "F" THEN "T" ELSE "U"

RECURSIVE SumPairs(_)
SumPairs(S) ==
    IF S = {} THEN 0
    ELSE LET x == CHOOSE y \in S : TRUE IN x[2] + SumPairs(S \ {x})

(* SUM(expr) over the rows of a group; expr maps each row to its value. *)
Sum(expr) == SumPairs({ <<d, expr[d]>> : d \in DOMAIN expr })

(* SUM(CASE WHEN cond THEN 1 ELSE 0 END) *)
SumCase(cond) == Sum([d \in DOMAIN cond |-> IF cond[d] THEN 1 ELSE 0])

(* CTE PlayerMatchParticipation of batting_stats, with the non-striker     *)
(* branch of the UNION left out.                                           *)
PlayerMatchParticipationBatterOnly(D) ==
    { <<d.match_id, d.batter_id>> : d \in { e \in D : e.batter_id /= Null /\ e.super_over = 0 } }

(* CTE PlayerMatchParticipation of batting_stats *)
PlayerMatchParticipation(D) ==
    { <<d.match_id, d.batter_id>> : d \in { e \in D : e.batter_id /= Null /\ e.super_over = 0 } }
      \cup { <<d.match_id, d.non_striker_id>> :
               d \in { e \in D : e.non_striker_id /= Null /\ e.super_over = 0 } }

RetiredKinds == {"retired hurt", "retired not out"}

(* CTE PlayerInningsOutcomes: was_out of one (match_id, player_id) of      *)
(* PlayerMatchParticipation. The LEFT JOIN gives one all-NULL row when no  *)
(* delivery of the match names the player as out.                          *)
WasOut(D, match_id, player_id) ==
    LET joined == { d \in D : /\ d.match_id = match_id
                              /\ (d.player_out_id = player_id \/ d.player_out2_id = player_id) }
        case(d) ==
            IF /\ d.player_out_id = player_id
               /\ Not3(In3(d.how_out, RetiredKinds)) = "T"
               /\ d.super_over = 0 THEN 1
            ELSE IF /\ d.player_out2_id = player_id
                    /\ Not3(In3(d.how_out2, RetiredKinds)) = "T"
                    /\ d.super_over = 0 THEN 1
            ELSE 0
    IN IF joined = {} THEN 0
       ELSE CHOOSE v \in { case(d) : d \in joined } : \A d \in joined : case(d) <= v

(* CTE WicketsTotals: one row per player_id of PlayerInningsOutcomes *)
WicketsTotals(D) ==
    LET pmp == PlayerMatchParticipation(D)
        ids == { x[2] : x \in pmp }
    IN [p \in ids |->
          LET mine == { x \in pmp : x[2] = p }
          IN [total_outs |-> SumPairs({ <<x, WasOut(D, x[1], p)>> : x \in mine }),
              total_innings |-> Cardinality(mine)]]

(* View batting_stats: players JOIN WicketsTotals LEFT JOIN deliveries ON  *)
(* the player is batter or non-striker, GROUP BY the player.               *)
BattingStats(D) ==
    LET wt == WicketsTotals(D)
    IN [p \in (Players \cap DOMAIN wt) |->
          LET J == { d \in D : p = d.batter_id \/ p = d.non_striker_id }
              SO0(d) == d.super_over = 0
              Bat(d) == d.batter_id = p
              OutAs(d, kind) == p = d.player_out_id /\ d.how_out = kind /\ SO0(d)
              OutEither(d, kind) ==
                  /\ (p = d.player_out_id \/ p = d.player_out2_id)
                  /\ (d.how_out = kind \/ d.how_out2 = kind)
                  /\ SO0(d)
              Shot(d, n) == Bat(d) /\ d.runs_batter = n /\ SO0(d)
              ShotNb(d, n, nb) == Shot(d, n) /\ d.runs_batter_non_boundary = nb
          IN [batGames |-> wt[p].total_innings,
              batWickets |-> wt[p].total_outs,
              batNotOuts |-> wt[p].total_innings - wt[p].total_outs,
              batRuns |-> Sum([d \in J |-> IF Bat(d) /\ SO0(d) THEN d.runs_batter ELSE 0]),
              ballsFaced |-> SumCase([d \in J |-> Bat(d) /\ d.extras_wides = 0 /\ SO0(d)]),
              ballsOnStrike |-> SumCase([d \in J |-> Bat(d) /\ SO0(d)]),
              ballsSeen |-> SumCase([d \in J |-> (Bat(d) \/ d.non_striker_id = p) /\ SO0(d)]),
              zeros |-> SumCase([d \in J |-> Bat(d) /\ d.runs_batter = 0 /\ d.extras_wides = 0
                                              /\ d.extras_noballs = 0 /\ SO0(d)]),
              singles |-> SumCase([d \in J |-> Shot(d, 1)]),
              doubles |-> SumCase([d \in J |-> Shot(d, 2)]),
              triples |-> SumCase([d \in J |-> Shot(d, 3)]),
              quadruples |-> SumCase([d \in J |-> ShotNb(d, 4, 1)]),
              quintuples |-> SumCase([d \in J |-> Shot(d, 5)]),
              sextuples |-> SumCase([d \in J |-> ShotNb(d, 6, 1)]),
              septuples |-> SumCase([d \in J |-> Shot(d, 7)]),
              fours |-> SumCase([d \in J |-> ShotNb(d, 4, 0)]),
              sixes |-> SumCase([d \in J |-> ShotNb(d, 6, 0)]),
              widesFaced |-> SumCase([d \in J |-> Bat(d) /\ d.extras_wides > 0 /\ SO0(d)]),
              noBallsFaced |-> SumCase([d \in J |-> Bat(d) /\ d.extras_noballs > 0 /\ SO0(d)]),
              bowled |-> SumCase([d \in J |-> OutAs(d, "bowled")]),
              caught |-> SumCase([d \in J |-> OutAs(d, "caught")]),
              caughtAndBowled |-> SumCase([d \in J |-> OutAs(d, "caught and bowled")]),
              lbw |-> SumCase([d \in J |-> OutAs(d, "lbw")]),
              stumped |-> SumCase([d \in J |-> OutAs(d, "stumped")]),
              runOut |-> SumCase([d \in J |-> OutEither(d, "run out")]),
              hitWicket |-> SumCase([d \in J |-> OutAs(d, "hit wicket")]),
              obstructingTheField |-> SumCase([d \in J |-> OutAs(d, "obstructing the field")]),
              hitTheBallTwice |-> SumCase([d \in J |-> OutAs(d, "hit the ball twice")]),
              handledTheBall |-> SumCase([d \in J |-> OutAs(d, "handled the ball")]),
              timedOut |-> SumCase([d \in J |-> OutEither(d, "timed out")]),
              retiredOut |-> SumCase([d \in J |-> OutEither(d, "retired out")]),
              ppRuns |-> Sum([d \in J |-> IF Bat(d) /\ d.powerplay = 1 THEN d.runs_batter ELSE 0]),
              ppBallsFaced |-> SumCase([d \in J |-> Bat(d) /\ d.extras_wides = 0 /\ d.powerplay = 1]),
              ppOuts |-> SumCase([d \in J |-> (d.player_out_id = p \/ d.player_out2_id = p)
                                               /\ d.powerplay = 1]),
              superOverRuns |-> Sum([d \in J |-> IF Bat(d) /\ d.super_over = 1
                                                    THEN d.runs_batter ELSE 0]),
              superOverBallsFaced |-> SumCase([d \in J |-> Bat(d) /\ d.extras_wides = 0
                                                            /\ d.super_over = 1]),
              superOverOuts |-> SumCase([d \in J |-> (d.player_out_id = p \/ d.player_out2_id = p)
                                                      /\ d.super_over = 1])]]

(* SELECT * FROM batting_stats *)
SelectBattingStats ==
    /\ spc = "stored"
    /\ batting_stats' = BattingStats(stat_deliveries)
    /\ spc' = "batting"
    /\ UNCHANGED <<stat_deliveries, bowling_stats>>

(* Properties of the batting view (SpecStats) *)

BattingQueried == spc \in {"batting", "done"}

(* The player is given out on the delivery, as first or second wicket,    *)
(* outside the super over, by a kind that is not one of the two retired    *)
(* kinds.                                                                  *)
DismissedOn(d, p) ==
    /\ d.super_over = 0
    /\ \/ d.player_out_id = p /\ d.how_out /= Null /\ d.how_out \notin RetiredKinds
       \/ d.player_out2_id = p /\ d.how_out2 /= Null /\ d.how_out2 \notin RetiredKinds

MatchesDismissedIn(p) == { d.match_id : d \in { e \in stat_deliveries : DismissedOn(e, p) } }

\* C18: outs and not-outs. For every player of the view, batWickets is the
\* number of matches in which the player was dismissed, as first or second
\* wicket on a delivery outside the super over, by a kind other than
\* 'retired hurt' and 'retired not out'; batNotOuts = batGames - batWickets
\* and is not negative.
C18_OutsAndNotOuts ==
    BattingQueried =>
        \A p \in DOMAIN batting_stats :
            /\ batting_stats[p].batWickets = Cardinality(MatchesDismissedIn(p))
            /\ batting_stats[p].batNotOuts =
                  batting_stats[p].batGames - batting_stats[p].batWickets
            /\ batting_stats[p].batNotOuts >= 0

MatchesBattedIn(p) ==
    { d.match_id : d \in { e \in stat_deliveries :
                             e.super_over = 0 /\ (e.batter_id = p \/ e.non_striker_id = p) } }

\* C19: innings denominator. For every player, batGames is the number of
\* distinct matches in which the player is batter or non-striker on at least
\* one delivery outside the super over; a player with no such match has no
\* row.
C19_InningsDenominator ==
    BattingQueried =>
        \A p \in Players :
            IF p \in DOMAIN batting_stats
              THEN batting_stats[p].batGames = Cardinality(MatchesBattedIn(p))
              ELSE MatchesBattedIn(p) = {}

(* A player counted for two matches, in one of which the player only stood *)
(* at the non-striker's end.                                               *)
C19_Witness ==
    /\ BattingQueried
    /\ \E p \in DOMAIN batting_stats :
          /\ batting_stats[p].batGames = 2
          /\ \E m \in MatchesBattedIn(p) :
                \A d \in stat_deliveries : d.match_id = m => d.batter_id /= p

-----------------------------------------------------------------------------
(* View bowling_stats *)

BowlerKinds == {"bowled", "caught", "caught and bowled", "lbw", "stumped", "hit wicket"}

(* COUNT(expr): the rows of the group whose expr is not NULL *)
Count(expr) == Cardinality({ d \in DOMAIN expr : expr[d] /= NullInt })

(* COUNT(DISTINCT expr): the distinct values of expr that are not NULL *)
CountDistinct(expr) == Cardinality({ expr[d] : d \in DOMAIN expr } \ {Null})

(* CAST(n / 6 AS TEXT) || '.' || CAST(n % 6 AS TEXT) *)
OversText(n) == <<n \div 6, n % 6>>

(* One row of bowling_stats, from the deliveries J of its group. *)
BowlingRow(J) ==
    LET SO0(d) == d.super_over = 0
        SO1(d) == d.super_over = 1
        PP(d) == d.powerplay = 1
        Legal(d) == d.extras_wides = 0 /\ d.extras_noballs = 0
        Conceded(d) == d.runs_batter + d.extras_wides + d.extras_noballs
        Shot(d, n) == SO0(d) /\ d.runs_batter = n
        ShotNb(d, n, nb) == Shot(d, n) /\ d.runs_batter_non_boundary = nb
        OutAs(d, kind) == SO0(d) /\ d.how_out = kind
    IN [bowlGames |-> CountDistinct([d \in J |-> IF SO0(d) THEN d.match_id ELSE Null]),
        bowlWickets |-> SumCase([d \in J |-> SO0(d) /\ d.how_out \in BowlerKinds]),
        bowlRuns |-> Sum([d \in J |-> IF SO0(d) THEN Conceded(d) ELSE 0]),
        bowlRunsBat |-> Sum([d \in J |-> IF SO0(d) THEN d.runs_batter ELSE 0]),
        ballsBowled |-> Count([d \in J |-> IF SO0(d) THEN d.balls ELSE 0]),
        ballsBowledLegal |-> SumCase([d \in J |-> SO0(d) /\ Legal(d)]),
        overs |-> OversText(SumCase([d \in J |-> SO0(d) /\ Legal(d)])),
        zeros |-> SumCase([d \in J |-> SO0(d) /\ d.runs_batter = 0 /\ Legal(d)]),
        singles |-> SumCase([d \in J |-> Shot(d, 1)]),
        doubles |-> SumCase([d \in J |-> Shot(d, 2)]),
        triples |-> SumCase([d \in J |-> Shot(d, 3)]),
        quadruples |-> SumCase([d \in J |-> ShotNb(d, 4, 1)]),
        quintuples |-> SumCase([d \in J |-> Shot(d, 5)]),
        sextuples |-> SumCase([d \in J |-> ShotNb(d, 6, 1)]),
        septuples |-> SumCase([d \in J |-> Shot(d, 7)]),
        fours |-> SumCase([d \in J |-> ShotNb(d, 4, 0)]),
        sixes |-> SumCase([d \in J |-> ShotNb(d, 6, 0)]),
        widesBowled |-> Sum([d \in J |-> IF SO0(d) THEN d.extras_wides ELSE 0]),
        noBallsBowled |-> Sum([d \in J |-> IF SO0(d) THEN d.extras_noballs ELSE 0]),
        legByesCount |-> SumCase([d \in J |-> SO0(d) /\ d.extras_legbyes > 0]),
        legByesRuns |-> Sum([d \in J |-> IF SO0(d) THEN d.extras_legbyes ELSE 0]),
        bowled |-> SumCase([d \in J |-> OutAs(d, "bowled")]),
        caught |-> SumCase([d \in J |-> OutAs(d, "caught")]),
        caughtAndBowled |-> SumCase([d \in J |-> OutAs(d, "caught and bowled")]),
        lbw |-> SumCase([d \in J |-> OutAs(d, "lbw")]),
        stumped |-> SumCase([d \in J |-> OutAs(d, "stumped")]),
        hitWicket |-> SumCase([d \in J |-> OutAs(d, "hit wicket")]),
        ppOvers |-> OversText(SumCase([d \in J |-> PP(d) /\ Legal(d)])),
        ppBallsBowledLegal |-> SumCase([d \in J |-> PP(d) /\ Legal(d)]),
        ppWickets |-> SumCase([d \in J |-> PP(d) /\ d.how_out \in BowlerKinds]),
        ppRunsConceded |-> Sum([d \in J |-> IF PP(d) THEN Conceded(d) ELSE 0]),
        superOvers |-> OversText(SumCase([d \in J |-> SO1(d) /\ Legal(d)])),
        superOverRunsConceded |-> Sum([d \in J |-> IF SO1(d) THEN Conceded(d) ELSE 0]),
        superOverBallsBowledLegal |-> SumCase([d \in J |-> SO1(d) /\ Legal(d)]),
        superOverWickets |-> SumCase([d \in J |-> SO1(d) /\ d.how_out \in BowlerKinds])]

(* View bowling_stats: players JOIN deliveries ON the player is the        *)
(* bowler, GROUP BY the player.                                            *)
BowlingStats(D) ==
    [p \in { q \in Players : \E d \in D : q = d.bowler_id } |->
        BowlingRow({ d \in D : p = d.bowler_id })]

(* SELECT * FROM bowling_stats *)
SelectBowlingStats ==
    /\ spc = "batting"
    /\ bowling_stats' = BowlingStats(stat_deliveries)
    /\ spc' = "done"
    /\ UNCHANGED <<stat_deliveries, batting_stats>>

(* The database holds the deliveries load_deliveries stored for up to two  *)
(* matches.                                                                *)
InitStats ==
    /\ IngestIdle /\ ReconIdle /\ KeyIdle /\ DelivIdle /\ FlagsIdle /\ MatchIdle /\ ResolveIdle /\ WriteIdle
    /\ stat_deliveries \in { TableOf(balls) : balls \in SeqsUpTo(StatBalls, MaxRows) }
    /\ batting_stats = <<>>
    /\ bowling_stats = <<>>
    /\ spc = "stored"

NextStats ==
    \/ (SelectBattingStats /\ UNCHANGED nonStats)
    \/ (SelectBowlingStats /\ UNCHANGED nonStats)

SpecStats == InitStats /\ [][NextStats]_vars

(* Properties of the two views together (SpecStats) *)

SuperOverColumnsBatting == {"superOverRuns", "superOverBallsFaced", "superOverOuts"}
SuperOverColumnsBowling ==
    {"superOvers", "superOverRunsConceded", "superOverBallsBowledLegal", "superOverWickets"}

CareerColumns(row, super_over_columns) ==
    [c \in (DOMAIN row) \ super_over_columns |-> row[c]]

RegularDeliveries == { d \in stat_deliveries : d.super_over = 0 }

\* C20: tie-breaker exclusion. No super_over delivery contributes to a
\* career column of batting_stats or bowling_stats: every player's career
\* columns (all columns but the superOver* ones) are those the player's
\* deliveries outside the super over give alone.
C20_SuperOverExcluded ==
    /\ BattingQueried =>
          \A p \in DOMAIN batting_stats :
              CareerColumns(batting_stats[p], SuperOverColumnsBatting)
                = CareerColumns(BattingStats(RegularDeliveries)[p], SuperOverColumnsBatting)
    /\ spc = "done" =>
          \A p \in DOMAIN bowling_stats :
              CareerColumns(bowling_stats[p], SuperOverColumnsBowling)
                = CareerColumns(BowlingRow({ d \in RegularDeliveries : p = d.bowler_id }),
                                SuperOverColumnsBowling)

(* Properties of the scoring-shot columns (SpecStats) *)

BothQueried == spc = "done"

Boundaries(row, n) == IF n = 4 THEN row.fours ELSE row.sixes
AllRun(row, n) == IF n = 4 THEN row.quadruples ELSE row.sextuples

\* C21: boundary classification. Every delivery outside the super over with
\* runs_batter = 4 (resp. 6) is counted in exactly one of fours/quadruples
\* (resp. sixes/sextuples) for its batter and for its bowler: in
\* quadruples/sextuples when runs.non_boundary is set in the file, in
\* fours/sixes when it is not.
C21_BoundaryClassification ==
    BothQueried =>
        \A p \in Players : \A n \in {4, 6} :
            LET hit == { d \in RegularDeliveries : d.batter_id = p /\ d.runs_batter = n }
                conceded == { d \in RegularDeliveries : d.bowler_id = p /\ d.runs_batter = n }
                Flagged(S) == { d \in S : d.non_boundary = "true" }
            IN /\ hit /= {} => p \in DOMAIN batting_stats
               /\ conceded /= {} => p \in DOMAIN bowling_stats
               /\ p \in DOMAIN batting_stats =>
                     /\ AllRun(batting_stats[p], n) = Cardinality(Flagged(hit))
                     /\ Boundaries(batting_stats[p], n) = Cardinality(hit \ Flagged(hit))
               /\ p \in DOMAIN bowling_stats =>
                     /\ AllRun(bowling_stats[p], n) = Cardinality(Flagged(conceded))
                     /\ Boundaries(bowling_stats[p], n) = Cardinality(conceded \ Flagged(conceded))

(* A six with runs.non_boundary set next to a boundary six of the same     *)
(* batter and bowler.                                                      *)
C21_Witness ==
    /\ BothQueried
    /\ \E d \in RegularDeliveries : d.runs_batter = 6 /\ d.non_boundary = "true"
    /\ \E p \in DOMAIN batting_stats :
          batting_stats[p].sextuples = 1 /\ batting_stats[p].sixes = 1
    /\ \E p \in DOMAIN bowling_stats :
          bowling_stats[p].sextuples = 1 /\ bowling_stats[p].sixes = 1

(* Properties of the ball counts (SpecStats) *)

LegalBall(d) == d.extras_wides = 0 /\ d.extras_noballs = 0

\* C22: legal balls. Every ball count used as a strike-rate or economy
\* denominator (batting ballsFaced and ppBallsFaced, bowling
\* ballsBowledLegal and overs) counts a delivery only if it has neither
\* wides nor no-balls.
C22_LegalBalls ==
    BothQueried =>
        /\ \A p \in DOMAIN batting_stats :
              LET faced == { d \in RegularDeliveries : d.batter_id = p /\ LegalBall(d) }
                  ppFaced == { d \in stat_deliveries :
                                 d.batter_id = p /\ d.powerplay = 1 /\ LegalBall(d) }
              IN /\ batting_stats[p].ballsFaced = Cardinality(faced)
                 /\ batting_stats[p].ppBallsFaced = Cardinality(ppFaced)
        /\ \A p \in DOMAIN bowling_stats :
              LET bowled == { d \in RegularDeliveries : d.bowler_id = p /\ LegalBall(d) }
              IN /\ bowling_stats[p].ballsBowledLegal = Cardinality(bowled)
                 /\ bowling_stats[p].overs = OversText(Cardinality(bowled))

(* Properties of the dismissal columns (SpecStats) *)

DismissalTally(row) ==
    [bowled |-> row.bowled, caught |-> row.caught,
     caughtAndBowled |-> row.caughtAndBowled, lbw |-> row.lbw, stumped |-> row.stumped,
     runOut |-> row.runOut, hitWicket |-> row.hitWicket,
     obstructingTheField |-> row.obstructingTheField,
     hitTheBallTwice |-> row.hitTheBallTwice, handledTheBall |-> row.handledTheBall,
     timedOut |-> row.timedOut, retiredOut |-> row.retiredOut]

KindOfColumn ==
    [bowled |-> "bowled", caught |-> "caught", caughtAndBowled |-> "caught and bowled",
     lbw |-> "lbw", stumped |-> "stumped", runOut |-> "run out", hitWicket |-> "hit wicket",
     obstructingTheField |-> "obstructing the field",
     hitTheBallTwice |-> "hit the ball twice", handledTheBall |-> "handled the ball",
     timedOut |-> "timed out", retiredOut |-> "retired out"]

(* The deliveries outside the super over on which the player is given out  *)
(* by the kind, as first or as second wicket.                              *)
OutByKind(p, kind) ==
    { d \in RegularDeliveries : \/ d.player_out_id = p /\ d.how_out = kind
                                \/ d.player_out2_id = p /\ d.how_out2 = kind }

\* C29: dismissal tallies add up. For every player of batting_stats the sum
\* of the per-kind dismissal columns equals batWickets, and each dismissal
\* is tallied under the kind recorded for that player, also when the
\* delivery has a second wicket.
C29_DismissalTallies ==
    BattingQueried =>
        \A p \in DOMAIN batting_stats :
            LET tally == DismissalTally(batting_stats[p])
            IN /\ Sum(tally) = batting_stats[p].batWickets
               /\ \A c \in DOMAIN tally : tally[c] = Cardinality(OutByKind(p, KindOfColumn[c]))

-----------------------------------------------------------------------------
(* Precision of the relaxed joins (SpecRecon) *)

DiagField == [x \in {"RESULT MISMATCH", "DATE MISMATCH", "TOSS MISMATCH"} |->
                CASE x = "RESULT MISMATCH" -> "match_result"
                  [] x = "DATE MISMATCH" -> "start_date"
                  [] x = "TOSS MISMATCH" -> "toss_result"]

(* a and b agree on each of date, team pair, result text, toss text and    *)
(* venue nation other than the named field, and differ on that field.      *)
DiffersOnlyIn(a, b, field) ==
    /\ {a.team1, a.team2} = {b.team1, b.team2}
    /\ \A f \in {"start_date", "match_result", "toss_result", "venue_nation"} :
          (a[f] = b[f]) <=> (f /= field)

(* The diagnostic is the one the pair (a scraped, b canonical) is quoted in. *)
DiagQuotes(g, a, b) ==
    /\ g.teams = MatchTeamsKey(b)
    /\ g.db = b[DiagField[g.kind]]
    /\ g.icc = a[DiagField[g.kind]]
    /\ g.kind /= "DATE MISMATCH" => g.start_date = b.start_date

\* C23: relaxed-join precision. Every Result, Date or Toss mismatch
\* diagnostic is emitted for a canonical record b outside the Exact set and
\* a scraped record a that agree on date, team pair, result text, toss text
\* and venue nation except for the field the diagnostic names, on which
\* they differ.
C23_RelaxedJoinPrecision ==
    Reconciled =>
        \A g \in diag :
            g.kind \in DOMAIN DiagField =>
                \E i \in 1..Len(icc_dedup) : \E j \in 1..Len(db_df) :
                    /\ ~HasScrapedTwin(db_df[j])
                    /\ DiagQuotes(g, icc_dedup[i], db_df[j])
                    /\ DiffersOnlyIn(icc_dedup[i], db_df[j], DiagField[g.kind])

-----------------------------------------------------------------------------
(* Powerplay and super-over flags (SpecFlags): what generate_df gives the  *)
(* delivery at ball index k of over index j of innings index i, from the   *)
(* innings' powerplays.0.to value.                                         *)

MaxInningsIdx == 3
MaxOverIdx == 2

Digits == <<"0", "1", "2", "3">>

(* powerplays.0.to as str() gives it: absent (Null), a number without a    *)
(* fraction, or over.ball; also text that does not parse.                  *)
PowerplayTo ==
    { Null, <<"1">>, <<"0", ".", "1">>, <<"0", ".", "3">>, <<"1", ".", "2">>,
      <<"2", ".", "0">>, <<"1", ".">>, <<"1", ".", "2", ".", "3">> }

(* str.split('.') *)
RECURSIVE SplitDot(_)
SplitDot(chars) ==
    LET dots == { n \in 1..Len(chars) : chars[n] = "." }
    IN IF dots = {} THEN <<chars>>
       ELSE LET first == CHOOSE n \in dots : \A m \in dots : n <= m
            IN <<SubSeq(chars, 1, first - 1)>> \o SplitDot(SubSeq(chars, first + 1, Len(chars)))

(* int(text): NullInt stands for the ValueError of text that is no number. *)
RECURSIVE ParseInt(_)
ParseInt(chars) ==
    IF chars = <<>> \/ \E n \in 1..Len(chars) : \A v \in 1..Len(Digits) : Digits[v] /= chars[n]
      THEN NullInt
    ELSE LET last == CHOOSE v \in 1..Len(Digits) : Digits[v] = chars[Len(chars)]
         IN IF Len(chars) = 1 THEN last - 1
            ELSE 10 * ParseInt(SubSeq(chars, 1, Len(chars) - 1)) + (last - 1)

(* DeliveriesExtractor._powerplay, returning (0, 0) only when the innings   *)
(* has no powerplays entry and reading the entry of every innings.         *)
PowerplayAlwaysParsed(innings_idx, raw_val) ==
    IF raw_val = Null THEN [status |-> "ok", pp_end_over |-> 0, pp_end_ball |-> 0]
    ELSE LET parts == SplitDot(raw_val)
         IN IF Len(parts) /= 2 \/ ParseInt(parts[1]) = NullInt \/ ParseInt(parts[2]) = NullInt
              THEN [status |-> "ValueError"]
            ELSE [status |-> "ok", pp_end_over |-> ParseInt(parts[1]),
                  pp_end_ball |-> ParseInt(parts[2])]

(* DeliveriesExtractor._powerplay *)
Powerplay(innings_idx, raw_val) ==
    IF innings_idx >= 2 THEN [status |-> "ok", pp_end_over |-> 0, pp_end_ball |-> 0]
    ELSE IF raw_val = Null THEN [status |-> "KeyError"]
    ELSE LET parts == SplitDot(raw_val)
         IN IF Len(parts) /= 2 \/ ParseInt(parts[1]) = NullInt \/ ParseInt(parts[2]) = NullInt
              THEN [status |-> "ValueError"]
            ELSE [status |-> "ok", pp_end_over |-> ParseInt(parts[1]),
                  pp_end_ball |-> ParseInt(parts[2])]

(* The innings, powerplay and super_over entries of delivery_dict *)
DeliveryFlags(i, j, k, raw_val) ==
    LET pp == Powerplay(i, raw_val)
    IN IF pp.status /= "ok" THEN [status |-> pp.status]
       ELSE [status |-> "ok",
             innings |-> i + 1, overs |-> j + 1, balls |-> k + 1,
             powerplay |-> IF j < pp.pp_end_over \/ (j = pp.pp_end_over /\ k + 1 <= pp.pp_end_ball)
                             THEN 1 ELSE 0,
             super_over |-> IF i >= 2 THEN 1 ELSE 0]

(* DeliveriesExtractor.generate_df, for one delivery *)
ExtractFlags ==
    /\ fpc = "raw"
    /\ fl_out' = DeliveryFlags(fl_in.i, fl_in.j, fl_in.k, fl_in.to)
    /\ fpc' = "done"
    /\ UNCHANGED fl_in

InitFlags ==
    /\ IngestIdle /\ ReconIdle /\ KeyIdle /\ DelivIdle /\ StatsIdle /\ WriteIdle /\ ResolveIdle /\ MatchIdle
    /\ fl_in \in [i : 0..MaxInningsIdx, j : 0..MaxOverIdx, k : 0..MaxOverIdx, to : PowerplayTo]
    /\ fl_out = <<>>
    /\ fpc = "raw"

NextFlags == ExtractFlags /\ UNCHANGED nonFlags

SpecFlags == InitFlags /\ [][NextFlags]_vars

(* Properties of the flags (SpecFlags) *)

Produced == fpc = "done" /\ fl_out.status = "ok"

\* C30: powerplay and tie-breaker flags are disjoint. Every delivery
\* produced by generate_df has super_over = 1 iff its innings number is 3 or
\* more, and every such delivery has powerplay = 0.
C30_FlagsDisjoint ==
    Produced =>
        /\ (fl_out.super_over = 1) <=> (fl_out.innings >= 3)
        /\ fl_out.super_over \in {0, 1}
        /\ fl_out.super_over = 1 => fl_out.powerplay = 0

(* The first ball of a third innings whose powerplays entry, were it read, *)
(* would put the ball inside the powerplay.                                *)
C30_Witness ==
    /\ Produced
    /\ fl_out.super_over = 1 /\ fl_out.innings = 3
    /\ fl_in.j = 0 /\ fl_in.k = 0 /\ fl_in.to = <<"1", ".", "2">>
    /\ DeliveryFlags(0, fl_in.j, fl_in.k, fl_in.to).powerplay = 1

(***************************************************************************)
(* The row of one match and its summary (SpecMatch)                        *)
(*                                                                         *)
(* MatchesExtractor.generate_df builds the one-row frame of a match file,  *)
(* MatchesLoader.load_match inserts it into table matches under the        *)
(* table's CHECK constraints, load_deliveries stores the deliveries, and   *)
(* view match_summary derives the innings totals.  Only the columns the    *)
(* outcome and the innings totals depend on are carried.                   *)
(***************************************************************************)

MaxPens == 1

\* info.teams of the file: teams.0 and teams.1
MatchTeams == <<"A", "B">>

\* the team map of the file's sex after both teams were resolved
active_team_map == [n \in {"A", "B"} |-> IF n = "A" THEN "T1" ELSE "T2"]

\* info.outcome.by: the margin of each key, NullInt for an absent key
ByValues ==
    { [runs |-> NullInt, wickets |-> NullInt],
      [runs |-> 1,       wickets |-> NullInt],
      [runs |-> 12,      wickets |-> NullInt],
      [runs |-> NullInt, wickets |-> 3],
      [runs |-> NullInt, wickets |-> 11] }

\* info.outcome records: Null for an absent key
OutcomeRecords ==
    [ winner : {Null, "A"}, by : ByValues, method : {Null, "D/L", "VJD"},
      result : {Null, "tie", "no result"}, eliminator : {Null, "B"} ]

\* an innings of the file: batting team, penalty runs, runs_total of each ball
InningsOf(team, pre, post, balls) ==
    [team |-> team, pre |-> pre, post |-> post, balls |-> balls]

\* the innings lists of a file: none, the first only, or both, either side
\* batting first
InningsLists ==
    { <<>> }
    \cup { << InningsOf(t, pre, post, <<4, 1>>) >> :
             t \in {"A", "B"}, pre \in 0..MaxPens, post \in 0..MaxPens }
    \cup { << InningsOf(t, pre, post, <<4, 1>>),
              InningsOf(IF t = "A" THEN "B" ELSE "A", pre2, 0, <<2>>) >> :
             t \in {"A", "B"}, pre \in 0..MaxPens, post \in 0..MaxPens,
             pre2 \in 0..MaxPens }

\* df.map(active_team_map): a name outside the map, or no name, gives NULL
MapTeam(name) ==
    IF name \in DOMAIN active_team_map THEN active_team_map[name] ELSE Null

\* MatchesExtractor._extract_outcome, with the two margins of column_map
ExtractOutcome(outcome) ==
    LET by_other == IF outcome.method \notin {Null, "D/L"} THEN 1 ELSE 0
    IN  [ winner |-> IF outcome.eliminator /= Null THEN outcome.eliminator
                     ELSE outcome.winner,
          by_runs |-> IF outcome.by.runs /= NullInt THEN 1 ELSE 0,
          victory_margin_runs |-> outcome.by.runs,
          by_wickets |-> IF outcome.by.wickets /= NullInt THEN 1 ELSE 0,
          victory_margin_wickets |-> outcome.by.wickets,
          no_result |-> IF outcome.result = "no result" THEN 1 ELSE 0,
          tie |-> IF outcome.result = "tie" THEN 1 ELSE 0,
          super_over_pld |-> IF outcome.eliminator /= Null THEN 1 ELSE 0,
          DLS |-> IF outcome.method = "D/L" THEN 1 ELSE 0,
          by_other |-> by_other,
          victory_margin_other |-> IF by_other = 1 THEN outcome.method ELSE Null ]

\* the penalty runs of innings n (1 or 2) of the file, 0 without the innings
InningsPens(innings, n) ==
    IF Len(innings) >= n THEN innings[n].pre + innings[n].post ELSE 0

\* MatchesExtractor._extract_other: the penalty runs of an innings go to
\* team1 when team1 batted in it, to team2 otherwise
ExtractOther(innings) ==
    LET of(n, one) ==
            IF Len(innings) >= n /\ ((innings[n].team = MatchTeams[1]) <=> one)
            THEN InningsPens(innings, n) ELSE 0
    IN  [ team1_prepostpens |-> of(1, TRUE) + of(2, TRUE),
          team2_prepostpens |-> of(1, FALSE) + of(2, FALSE) ]

\* MatchesLoader.load_match: the tuple bound to INSERT INTO matches
MatchesRow(data) ==
    LET o == ExtractOutcome(data.outcome)
        p == ExtractOther(data.innings)
    IN  [ team1_id |-> MapTeam(MatchTeams[1]),
          team2_id |-> MapTeam(MatchTeams[2]),
          team1_prepostpens |-> p.team1_prepostpens,
          team2_prepostpens |-> p.team2_prepostpens,
          winner_id |-> MapTeam(o.winner),
          by_runs |-> o.by_runs,
          victory_margin_runs |-> o.victory_margin_runs,
          by_wickets |-> o.by_wickets,
          victory_margin_wickets |-> o.victory_margin_wickets,
          by_other |-> o.by_other,
          victory_margin_other |-> o.victory_margin_other,
          no_result |-> o.no_result,
          tie |-> o.tie,
          super_over_pld |-> o.super_over_pld,
          DLS |-> o.DLS ]

\* an integer column under a CHECK: NULL makes the CHECK unknown
IntCheck(x, ok) == IF x = NullInt THEN "U" ELSE T3(ok)

\* the CHECK constraints of table matches on the carried columns; a row is
\* refused when one of them is false
MatchesChecks(r) ==
    /\ IntCheck(r.by_runs, r.by_runs \in {0, 1}) /= "F"
    /\ Or3(IntCheck(r.victory_margin_runs, r.victory_margin_runs >= 0),
           T3(r.victory_margin_runs = NullInt)) /= "F"
    /\ IntCheck(r.by_wickets, r.by_wickets \in {0, 1}) /= "F"
    /\ Or3(IntCheck(r.victory_margin_wickets,
                    r.victory_margin_wickets >= 1 /\ r.victory_margin_wickets <= 10),
           T3(r.victory_margin_wickets = NullInt)) /= "F"
    /\ IntCheck(r.by_other, r.by_other \in {0, 1}) /= "F"
    /\ r.no_result \in {0, 1} /\ r.tie \in {0, 1}
    /\ r.super_over_pld \in {0, 1} /\ r.DLS \in {0, 1}
    /\ Or3(IsNull(r.winner_id),
           Or3(Eq3(r.winner_id, r.team1_id), Eq3(r.winner_id, r.team2_id))) /= "F"
    /\ Eq3(r.team1_id, r.team2_id) /= "T"

\* the rows load_deliveries writes for the file: innings number, position
\* in the innings, runs_total
MatchDeliveryRows(innings) ==
    UNION { { [innings |-> n, ball |-> b, runs_total |-> innings[n].balls[b]] :
                b \in DOMAIN innings[n].balls } : n \in DOMAIN innings }

(* load_match: the row is stored, or the insert is refused and the load of *)
(* the file ends.                                                          *)
LoadMatchRow ==
    /\ mpc = "raw"
    /\ LET r == MatchesRow(mt_in)
       IN  IF MatchesChecks(r)
           THEN mt_row' = r /\ mpc' = "match"
           ELSE mt_row' = <<>> /\ mpc' = "rejected"
    /\ UNCHANGED <<mt_in, mt_deliveries, mt_summary>>

(* load_deliveries: the batch of the file is stored whole, or refused      *)
(* whole by the table.                                                     *)
LoadMatchDeliveries ==
    /\ mpc = "match"
    /\ \E stored \in BOOLEAN :
          mt_deliveries' = IF stored THEN MatchDeliveryRows(mt_in.innings) ELSE {}
    /\ mpc' = "stored"
    /\ UNCHANGED <<mt_in, mt_row, mt_summary>>

\* delivery_summary of view match_summary: the runs of innings n, NullInt
\* when the match has no delivery row
RunsRaw(D, n) ==
    IF D = {} THEN NullInt
    ELSE Sum([d \in D |-> IF d.innings = n THEN d.runs_total ELSE 0])

Coalesce0(x) == IF x = NullInt THEN 0 ELSE x

\* the innings totals of view match_summary
MatchSummaryRow(m, D) ==
    [ runs_1st_innings |-> Coalesce0(RunsRaw(D, 1)) + m.team1_prepostpens,
      runs_2nd_innings |-> Coalesce0(RunsRaw(D, 2)) + m.team2_prepostpens ]

(* SELECT ... FROM match_summary for the stored match *)
SelectMatchSummary ==
    /\ mpc = "stored"
    /\ mt_summary' = MatchSummaryRow(mt_row, mt_deliveries)
    /\ mpc' = "done"
    /\ UNCHANGED <<mt_in, mt_row, mt_deliveries>>

InitMatch ==
    /\ IngestIdle /\ ReconIdle /\ KeyIdle /\ DelivIdle /\ StatsIdle /\ WriteIdle /\ ResolveIdle /\ FlagsIdle
    /\ mt_in \in [outcome : OutcomeRecords, innings : InningsLists]
    /\ mt_row = <<>> /\ mt_deliveries = {} /\ mt_summary = <<>>
    /\ mpc = "raw"

NextMatch ==
    \/ (LoadMatchRow /\ UNCHANGED nonMatch)
    \/ (LoadMatchDeliveries /\ UNCHANGED nonMatch)
    \/ (SelectMatchSummary /\ UNCHANGED nonMatch)

SpecMatch == InitMatch /\ [][NextMatch]_vars

(* Properties of the match row (SpecMatch) *)

MatchStored == mpc \in {"match", "stored", "done"}

\* C26: outcome-flag constraint.  Every match stored from an outcome record
\* the extractor accepted has at most one of by_runs, by_wickets, by_other
\* set to 1.
C26_OutcomeFlags ==
    MatchStored => mt_row.by_runs + mt_row.by_wickets + mt_row.by_other <= 1

\* the penalty runs recorded in the file for innings n, and the runs of the
\* stored deliveries of innings n
RecordedPens(n) == InningsPens(mt_in.innings, n)
StoredRuns(n) ==
    Sum([d \in {e \in mt_deliveries : e.innings = n} |-> d.runs_total])

\* C28: innings totals with penalties.  runs_1st_innings of a stored match
\* is the sum of runs_total over its innings-1 deliveries plus the
\* pre/post penalty runs recorded for innings 1, and runs_2nd_innings
\* likewise for innings 2, whichever of team1/team2 batted first.
C28_InningsTotals ==
    mpc = "done" =>
        /\ mt_summary.runs_1st_innings = StoredRuns(1) + RecordedPens(1)
        /\ mt_summary.runs_2nd_innings = StoredRuns(2) + RecordedPens(2)

(***************************************************************************)
(* Shared reference maps of one run (SpecResolve)                          *)
(*                                                                         *)
(* load_all_cricsheet_data builds maps once, before the loop, and hands    *)
(* the same dictionaries to load_match for every file.  load_match asks    *)
(* InputManager for a team or venue that is not in the maps and writes the *)
(* answer into them.  The resolvers prompt until they have an identifier;  *)
(* they end otherwise only by an exception the loop does not catch (an     *)
(* sqlite3 error of the venue insert, end of input), which ends the run.   *)
(***************************************************************************)

MaxMatchFiles == 2

\* info.teams of a file: K is in table teams for both sexes, U and V are not
TeamPairs == { <<"K", "U">>, <<"U", "V">> }

\* the lookup key "venue | city" of a file: one with an alias, one without
VenueKeys == { "Known Ground | Town", "New Ground | Town" }

\* what the rest of the load sequence of a file runs into
ResolveKinds == { "ok", "bad_json", "refused" }

ResolveFiles ==
    [ sex : {"male", "female"}, teams : TeamPairs, venue : VenueKeys,
      kind : ResolveKinds ]

\* identifiers a resolver can return
ResolvedIds == { "r1", "r2" }

\* maps as pre-loaded from tables teams and venue_aliases
PreloadedMaps ==
    [ teams_men   |-> [n \in {"K"} |-> "kM"],
      teams_women |-> [n \in {"K"} |-> "kF"],
      venues      |-> [k \in {"Known Ground | Town"} |-> "v1"] ]

\* d[k] = v on a dictionary
DictPut(d, k, v) == [x \in DOMAIN d \cup {k} |-> IF x = k THEN v ELSE d[x]]

\* the key of maps that active_team_map aliases for a sex
TeamMapOf(sex) == IF sex = "female" THEN "teams_women" ELSE "teams_men"

CacheTeamLocalCopy(maps, sex, team_name, new_id) == maps

\* active_team_map[team_name] = new_id, on the dictionary held by maps
CacheTeam(maps, sex, team_name, new_id) ==
    [maps EXCEPT ![TeamMapOf(sex)] = DictPut(@, team_name, new_id)]

\* maps['venues'][lookup_key] = venue_id
CacheVenue(maps, lookup_key, venue_id) ==
    [maps EXCEPT !.venues = DictPut(@, lookup_key, venue_id)]

ResFile == rs_files[rs_idx]

\* the next file of the loop, or the end of the loop
NextMatchFile ==
    /\ rs_idx' = rs_idx + 1
    /\ rs_col' = 0
    /\ xpc' = IF rs_idx + 1 > Len(rs_files) THEN "loaded" ELSE "open"

(* json.load of the current file *)
OpenMatchFile ==
    /\ xpc = "open"
    /\ IF ResFile.kind = "bad_json"
         THEN NextMatchFile
         ELSE xpc' = "teams" /\ rs_col' = 1 /\ rs_idx' = rs_idx
    /\ UNCHANGED <<rs_files, rs_maps, rs_calls>>

(* load_match, one pass of `for col in ['team1', 'team2']` *)
ResolveTeam ==
    /\ xpc = "teams"
    /\ LET sex == ResFile.sex
           team_name == ResFile.teams[rs_col]
           proceed == /\ rs_idx' = rs_idx
                      /\ IF rs_col = 1 THEN rs_col' = 2 /\ xpc' = "teams"
                                       ELSE rs_col' = 0 /\ xpc' = "venue"
       IN  IF team_name \notin DOMAIN rs_maps[TeamMapOf(sex)]
           THEN /\ rs_calls' = Append(rs_calls, <<"team", sex, team_name>>)
                /\ \/ \E new_id \in ResolvedIds :
                         /\ rs_maps' = CacheTeam(rs_maps, sex, team_name, new_id)
                         /\ proceed
                   \/ /\ rs_maps' = rs_maps
                      /\ xpc' = "crashed" /\ rs_idx' = rs_idx /\ rs_col' = rs_col
           ELSE /\ rs_calls' = rs_calls /\ rs_maps' = rs_maps
                /\ proceed
    /\ UNCHANGED rs_files

(* load_match, the venue lookup *)
ResolveVenue ==
    /\ xpc = "venue"
    /\ LET lookup_key == ResFile.venue
       IN  IF lookup_key \notin DOMAIN rs_maps.venues
           THEN /\ rs_calls' = Append(rs_calls, <<"venue", lookup_key>>)
                /\ \/ \E venue_id \in ResolvedIds :
                         /\ rs_maps' = CacheVenue(rs_maps, lookup_key, venue_id)
                         /\ xpc' = "insert"
                   \/ /\ rs_maps' = rs_maps
                      /\ xpc' = "crashed"
           ELSE /\ rs_calls' = rs_calls /\ rs_maps' = rs_maps
                /\ xpc' = "insert"
    /\ UNCHANGED <<rs_files, rs_idx, rs_col>>

(* the insert of load_match and the rest of the file's sequence: the file  *)
(* is stored, or a BuildError makes the loop skip it                       *)
FinishMatchFile ==
    /\ xpc = "insert"
    /\ NextMatchFile
    /\ UNCHANGED <<rs_files, rs_maps, rs_calls>>

InitResolve ==
    /\ IngestIdle /\ ReconIdle /\ KeyIdle /\ DelivIdle /\ StatsIdle /\ WriteIdle /\ MatchIdle /\ FlagsIdle
    /\ rs_files \in SeqsUpTo(ResolveFiles, MaxMatchFiles)
    /\ rs_maps = PreloadedMaps
    /\ rs_calls = <<>>
    /\ rs_idx = 1 /\ rs_col = 0
    /\ xpc = IF rs_files = <<>> THEN "loaded" ELSE "open"

NextResolve ==
    \/ (OpenMatchFile /\ UNCHANGED nonResolve)
    \/ (ResolveTeam /\ UNCHANGED nonResolve)
    \/ (ResolveVenue /\ UNCHANGED nonResolve)
    \/ (FinishMatchFile /\ UNCHANGED nonResolve)

SpecResolve == InitResolve /\ [][NextResolve]_vars

(* Properties of the shared maps (SpecResolve) *)

\* no resolver call is made twice: calls are <<"team", sex, name>> or
\* <<"venue", key>>
NoCallTwice ==
    \A i, j \in 1..Len(rs_calls) : i < j => rs_calls[i] /= rs_calls[j]

\* an entry of a dictionary of maps is kept as it is
MapsKept ==
    \A m \in {"teams_men", "teams_women", "venues"} :
        \A k \in DOMAIN rs_maps[m] :
            k \in DOMAIN rs_maps'[m] /\ rs_maps'[m][k] = rs_maps[m][k]

MaxNewFiles == 1

ChildTables == {"match_metadata", "match_players", "deliveries"}

\* match_id of the files of the run: m1 may be stored already, m3 is new
NewFileIds == {"m1", "m3"}

\* scheduled_start_utc of a scraped fixture: unknown, or a timestamp
StartTimes == {Null, "2024-03-01 18:00:00"}

\* the scraped frame with the start time the scraper attaches to a fixture
ScrapedTimed ==
    { [icc_id |-> i, start_date |-> t.start_date, team1 |-> t.team1, team2 |-> t.team2,
       toss_result |-> t.toss_result, match_result |-> t.match_result,
       venue_nation |-> t.venue_nation, scheduled_start_utc |-> ts] :
        i \in IccIds, t \in RunSummaries, ts \in StartTimes }

\* a row of matches as load_match inserts it: created_at and updated_at
\* take their default, no start time
InsertedMatch(summary) ==
    [summary |-> summary, scheduled_start_utc |-> Null, updated_at |-> "created"]

\* the stores a run can start from: m1 and m2, each stored whole or absent
ExistingStores ==
    { [id \in S |-> InsertedMatch(IF id = "m1" THEN BaseSummary ELSE s2)] :
        S \in SUBSET {"m1", "m2"}, s2 \in RunSummaries }

\* SELECT ... FROM match_summary: one row per match, by match_id
MatchOrder == <<"m1", "m2", "m3">>

SummaryRows(tbl) ==
    LET Stored(id) == id \in DOMAIN tbl
        ids == SelectSeq(MatchOrder, Stored)
    IN  [k \in 1..Len(ids) |->
            [match_id |-> ids[k], start_date |-> tbl[ids[k]].summary.start_date,
             team1 |-> tbl[ids[k]].summary.team1, team2 |-> tbl[ids[k]].summary.team2,
             toss_result |-> tbl[ids[k]].summary.toss_result,
             match_result |-> tbl[ids[k]].summary.match_result,
             venue_nation |-> tbl[ids[k]].summary.venue_nation]]

\* pd.merge(icc_df, db_df, on=join_keys, how='inner'): left order is kept,
\* a left row appears once per canonical row it joins
RECURSIVE MergeInner(_, _)
MergeInner(icc, db) ==
    IF icc = <<>> THEN <<>>
    ELSE LET a == Head(icc)
             Joins(b) == JoinKeysEqual(a, b)
             hits == SelectSeq(db, Joins)
         IN  [k \in 1..Len(hits) |->
                 [match_id |-> hits[k].match_id,
                  scheduled_start_utc |-> a.scheduled_start_utc]]
             \o MergeInner(Tail(icc), db)

PrepareProcessingDfAnyFixture(scraped, tbl) ==
    LET db == SummaryRows(tbl)
        icc == DropDuplicates(scraped, {})
    IN  IF icc = <<>> \/ db = <<>> THEN <<>>
        ELSE [k \in 1..(Len(icc) * Len(db)) |->
                 [match_id |-> db[((k - 1) % Len(db)) + 1].match_id,
                  scheduled_start_utc |->
                      icc[((k - 1) \div Len(db)) + 1].scheduled_start_utc]]

\* WeatherLoader._prepare_processing_df
PrepareProcessingDf(scraped, tbl) ==
    IF scraped = <<>> THEN <<>>
    ELSE LET db == SummaryRows(tbl)
         IN  IF db = <<>> THEN <<>> ELSE MergeInner(DropDuplicates(scraped, {}), db)

\* UPDATE matches SET scheduled_start_utc = ? WHERE match_id = ?, one row of
\* update_data after the other, with trigger update_matches_timestamp
RECURSIVE ExecuteUpdates(_, _)
ExecuteUpdates(tbl, update_data) ==
    IF update_data = <<>> THEN tbl
    ELSE LET u == Head(update_data)
             after == IF u.match_id \in DOMAIN tbl
                        THEN [tbl EXCEPT ![u.match_id] =
                                 [@ EXCEPT !.scheduled_start_utc = u.scheduled_start_utc,
                                           !.updated_at = "now"]]
                        ELSE tbl
         IN  ExecuteUpdates(after, Tail(update_data))

\* WeatherLoader._update_match_times: without the column the statement
\* raises sqlite3.Error, which is logged and rolled back
UpdateMatchTimes(tbl, df, has_col) ==
    LET Timed(r) == r.scheduled_start_utc /= Null
        update_data == SelectSeq(df, Timed)
    IN  IF update_data = <<>> \/ ~has_col THEN tbl
        ELSE ExecuteUpdates(tbl, update_data)

(* prepare_for_update *)
PrepareStore ==
    /\ wpc = "prepare"
    /\ w_missing' = DeleteFromMissingMatches(w_missing)
    /\ wpc' = "ingest"
    /\ UNCHANGED <<w_matches, w_children, w_before, w_has_col, w_icc, w_loaded>>

(* One file of the loop: its match_id is stored already and the insert is  *)
(* refused by the primary key, or its first `steps` inserts are committed  *)
(* (matches, match_metadata, match_players, deliveries).                   *)
IngestFile ==
    /\ wpc = "ingest"
    /\ w_loaded < MaxNewFiles
    /\ \E id \in NewFileIds, steps \in 0..4 :
          IF id \in DOMAIN w_matches \/ steps = 0
            THEN UNCHANGED <<w_matches, w_children>>
            ELSE /\ w_matches' =
                       [m \in DOMAIN w_matches \cup {id} |->
                           IF m = id THEN InsertedMatch(BaseSummary) ELSE w_matches[m]]
                 /\ w_children' =
                       [t \in ChildTables |->
                           IF \/ t = "match_metadata" /\ steps >= 2
                              \/ t = "match_players" /\ steps >= 3
                              \/ t = "deliveries" /\ steps >= 4
                             THEN [m \in DOMAIN w_children[t] \cup {id} |->
                                      IF m = id THEN "rows" ELSE w_children[t][m]]
                             ELSE w_children[t]]
    /\ w_loaded' = w_loaded + 1
    /\ UNCHANGED <<w_missing, w_before, w_has_col, w_icc, wpc>>

(* the loop is over; scraper.scrape_period *)
ScrapeSchedule ==
    /\ wpc = "ingest"
    /\ \E df \in SeqsUpTo(ScrapedTimed, MaxScrape) : w_icc' = df
    /\ wpc' = "reconcile"
    /\ UNCHANGED <<w_matches, w_children, w_missing, w_before, w_has_col, w_loaded>>

(* update_missing_matches; an empty frame skips it and the weather step *)
ReconcileStore ==
    /\ wpc = "reconcile"
    /\ IF w_icc = <<>>
         THEN wpc' = "done" /\ w_missing' = w_missing
         ELSE LET res == IdentifyMissingMatches(HandleIccDuplicates(w_icc),
                                                SummaryRows(w_matches))
              IN  IF res.missing = <<>>
                    THEN wpc' = "enrich" /\ w_missing' = w_missing
                    ELSE IF InsertFails(w_missing, res.missing)
                           THEN wpc' = "failed" /\ w_missing' = w_missing
                           ELSE /\ wpc' = "enrich"
                                /\ w_missing' = InsertMissingMatches(w_missing, res.missing)
    /\ UNCHANGED <<w_matches, w_children, w_before, w_has_col, w_icc, w_loaded>>

(* process_weather: the start times are written, then weather rows are     *)
(* fetched and inserted into table weather                                 *)
ProcessWeather ==
    /\ wpc = "enrich"
    /\ w_matches' = UpdateMatchTimes(w_matches, PrepareProcessingDf(w_icc, w_matches),
                                     w_has_col)
    /\ wpc' = "done"
    /\ UNCHANGED <<w_children, w_missing, w_before, w_has_col, w_icc, w_loaded>>

InitWrite ==
    /\ IngestIdle /\ ReconIdle /\ KeyIdle /\ DelivIdle /\ StatsIdle
    /\ ResolveIdle /\ MatchIdle /\ FlagsIdle
    /\ w_matches \in ExistingStores
    /\ w_children = [t \in ChildTables |-> [m \in DOMAIN w_matches |-> "rows"]]
    /\ w_missing \in { {}, {CHOOSE r \in ScrapedTimed : r.icc_id = 1} }
    /\ w_before = [matches |-> w_matches, children |-> w_children]
    /\ w_has_col \in BOOLEAN
    /\ w_icc = <<>>
    /\ w_loaded = 0
    /\ wpc = "prepare"

NextWrite ==
    \/ (PrepareStore /\ UNCHANGED nonWrite)
    \/ (IngestFile /\ UNCHANGED nonWrite)
    \/ (ScrapeSchedule /\ UNCHANGED nonWrite)
    \/ (ReconcileStore /\ UNCHANGED nonWrite)
    \/ (ProcessWeather /\ UNCHANGED nonWrite)

SpecWrite == InitWrite /\ [][NextWrite]_vars

(* Properties of the canonical rows (SpecWrite) *)

\* a scraped record of the run equal to the match on date, team pair,
\* result text, toss text and venue nation, carrying start time ts
ScrapedOnAllFive(summary, ts) ==
    \E i \in 1..Len(w_icc) :
        /\ JoinKeysEqual(w_icc[i], summary)
        /\ w_icc[i].scheduled_start_utc = ts

\* C25: canonical rows are write-once.  In a run without reset no match,
\* metadata, match-player or delivery row that existed before the run is
\* deleted or changed by prepare_for_update, ingestion or reconciliation;
\* an existing match differs from what it was only after the enrichment
\* pass, only in its scheduled-start timestamp (and the updated_at stamp
\* the table's trigger puts on the same statement), and only when a scraped
\* record matched it on all five fields.
C25_WriteOnce ==
    wpc /= "idle" =>
        \A id \in DOMAIN w_before.matches :
            /\ id \in DOMAIN w_matches
            /\ w_matches[id].summary = w_before.matches[id].summary
            /\ \A t \in ChildTables :
                  id \in DOMAIN w_before.children[t] =>
                      /\ id \in DOMAIN w_children[t]
                      /\ w_children[t][id] = w_before.children[t][id]
            /\ w_matches[id] /= w_before.matches[id] =>
                  /\ wpc = "done"
                  /\ w_matches[id].scheduled_start_utc /= Null
                  /\ ScrapedOnAllFive(w_matches[id].summary,
                                      w_matches[id].scheduled_start_utc)

\* the enrichment pass has given one existing match its start time and left
\* the other, which no scraped record matched, as it was, in a run that
\* also stored a new match
C25_Witness ==
    /\ wpc = "done"
    /\ DOMAIN w_before.matches = {"m1", "m2"} /\ "m3" \in DOMAIN w_matches
    /\ w_matches["m1"].scheduled_start_utc /= Null
    /\ w_matches["m2"] = w_before.matches["m2"]


====
